---- MODULE Spec2Model ----
(***************************************************************************)
(* Route53 Resolver provider of localstack                                 *)
(* (localstack/services/route53resolver/provider.py): the request handlers *)
(* of Route53ResolverProvider over the per-(account, region) store.        *)
(*                                                                         *)
(* Python values are modelled as follows.                                  *)
(*   dict      a sequence of entries [k |-> key, v |-> value] with         *)
(*             distinct keys, in insertion order (d[k] = v on a stored key *)
(*             replaces the value in place, on a new key appends).         *)
(*   list      a sequence.                                                 *)
(*   None      the empty sequence <<>>; a supplied optional value v is     *)
(*             <<v>>.                                                      *)
(*   an element of a stored domain list is a record [str, items]: a plain  *)
(*             string s is [str |-> TRUE, items |-> <<s>>], a nested list  *)
(*             l is [str |-> FALSE, items |-> l].                          *)
(*   raise     the handler ends with response.status the exception's name  *)
(*             and the store as the handler left it at that point.         *)
(***************************************************************************)
EXTENDS Integers, Sequences, FiniteSets, TLC

VARIABLES
    firewall_rule_groups,                    \* [scope -> dict id -> FirewallRuleGroup]
    firewall_domain_lists,                   \* [scope -> dict id -> FirewallDomainList]
    firewall_domains,                        \* [scope -> dict id -> list of domains]
    firewall_rules,                          \* [scope -> dict group id -> dict domain list id -> FirewallRule]
    firewall_rule_group_associations,        \* [scope -> dict id -> FirewallRuleGroupAssociation]
    resolver_query_log_configs,              \* [scope -> dict id -> ResolverQueryLogConfig]
    resolver_query_log_config_associations,  \* [scope -> dict id -> ResolverQueryLogConfigAssociation]
    firewall_configs,                        \* [scope -> dict resource id -> FirewallConfig]
    tagger,                                  \* [scope -> list of tag_resource calls [arn, tags]]
    vpcs,                                    \* [scope -> list of the VPC ids of the EC2 backend]
    idCounter,                               \* number of identifiers generated so far
    now,                                     \* the clock read by datetime.now
    pending,                                 \* [caller -> the associate_firewall_rule_group call it
                                             \*  has in flight between scan and insert, or None]
    response                                 \* the last handler call and what it returned or raised

storeVars == <<firewall_rule_groups, firewall_domain_lists, firewall_domains, firewall_rules,
               firewall_rule_group_associations, resolver_query_log_configs,
               resolver_query_log_config_associations, firewall_configs>>

vars == <<firewall_rule_groups, firewall_domain_lists, firewall_domains, firewall_rules,
          firewall_rule_group_associations, resolver_query_log_configs,
          resolver_query_log_config_associations, firewall_configs,
          tagger, vpcs, idCounter, now, pending, response>>

----------------------------------------------------------------------------
(* Bounds and input sets *)

MaxIds == 2
MaxDomains == 3
MaxTime == 2

Accounts == {"000000000000", "111111111111"}
Regions == {"us-east-1"}
Scopes == Accounts \X Regions
HomeScope == <<"000000000000", "us-east-1">>

Ids == 1..(MaxIds + 1)
Names == {"n1", "n2"}
Callers == {"c1", "c2"}
VpcIds == {"vpc-1", "vpc-2"}

None == <<>>
Some(v) == <<v>>

----------------------------------------------------------------------------
(* Python dict *)

Entry(k, v) == [k |-> k, v |-> v]
Keys(d) == {d[i].k : i \in 1..Len(d)}
Values(d) == [i \in 1..Len(d) |-> d[i].v]
HasKey(d, k) == \E i \in 1..Len(d) : d[i].k = k
DictGet(d, k) == d[CHOOSE i \in 1..Len(d) : d[i].k = k].v
DictSetAppend(d, k, v) == Append(d, Entry(k, v))

DictSet(d, k, v) ==
    IF HasKey(d, k)
    THEN [i \in 1..Len(d) |-> IF d[i].k = k THEN Entry(k, v) ELSE d[i]]
    ELSE Append(d, Entry(k, v))
DictPop(d, k) == SelectSeq(d, LAMBDA e : e.k # k)
EmptyDict == <<>>

Range(s) == {s[i] : i \in 1..Len(s)}

\* Python truthiness of an optional number / an optional string
TruthyInt(o) == o # None /\ o[1] # 0
TruthyStr(o) == o # None /\ o[1] # ""

OrEmptyListDrops(tags) == <<>>

\* `tags or []`
OrEmptyList(tags) == IF tags = None \/ tags = Some(<<>>) THEN <<>> ELSE tags[1]

----------------------------------------------------------------------------
(* Identifiers, ARNs, the response *)

\* get_route53_resolver_*_id: a fresh opaque identifier
NewId == idCounter + 1

\* aws_stack.get_*_arn(id): resource kind, account, region and id
Arn(kind, ctx, id) ==
    [service |-> "route53resolver", kind |-> kind, account |-> ctx[1], region |-> ctx[2], id |-> id]

Respond(op, ctx, args, status, result) ==
    response' = [op |-> op, ctx |-> ctx, args |-> args, status |-> status, result |-> result]

Ok == "ok"
NotFound == "ResourceNotFoundException"
Validation == "ValidationException"

\* Route53ResolverStore.get_<X>(id): the record, or Not-Found
store_get(coll, id) ==
    IF HasKey(coll, id)
    THEN [status |-> Ok, record |-> <<DictGet(coll, id)>>, coll |-> coll]
    ELSE [status |-> NotFound, record |-> <<>>, coll |-> coll]

\* Route53ResolverStore.delete_<X>(id): removes and returns the record, or Not-Found
store_delete(coll, id) ==
    IF HasKey(coll, id)
    THEN [status |-> Ok, record |-> <<DictGet(coll, id)>>, coll |-> DictPop(coll, id)]
    ELSE [status |-> NotFound, record |-> <<>>, coll |-> coll]

\* select_from_typed_dict(typed_dict, obj): obj restricted to the keys of typed_dict
select_from_typed_dict(fields, obj) == [f \in fields |-> obj[f]]

FirewallRuleGroupMetadata == {"Id", "Arn", "Name", "OwnerId", "CreatorRequestId", "ShareStatus"}
FirewallDomainListMetadata == {"Id", "Arn", "Name", "CreatorRequestId", "ManagedOwnerName"}

----------------------------------------------------------------------------
(* Firewall rule groups *)

create_firewall_rule_group_misnamed(ctx, creator_request_id, name, tags) ==
    /\ idCounter < MaxIds
    /\ LET id == NewId
           arn == Arn("firewall-rule-group", ctx, id)
           firewall_rule_group ==
               [Id |-> id, Arn |-> arn, Name |-> creator_request_id, RuleCount |-> 0,
                Status |-> "COMPLETE", OwnerId |-> ctx[1], ShareStatus |-> "NOT_SHARED",
                StatusMessage |-> "Created Firewall Rule Group",
                CreatorRequestId |-> creator_request_id,
                CreationTime |-> now, ModificationTime |-> now]
       IN /\ firewall_rule_groups' =
                 [firewall_rule_groups EXCEPT ![ctx] = DictSet(@, id, firewall_rule_group)]
          /\ tagger' = [tagger EXCEPT ![ctx] = Append(@, [arn |-> arn, tags |-> OrEmptyList(tags)])]
          /\ idCounter' = id
          /\ Respond("create_firewall_rule_group", ctx,
                     [creator_request_id |-> creator_request_id, name |-> name, tags |-> tags],
                     Ok, <<[FirewallRuleGroup |-> firewall_rule_group]>>)
    /\ UNCHANGED <<firewall_domain_lists, firewall_domains, firewall_rules,
                   firewall_rule_group_associations, resolver_query_log_configs,
                   resolver_query_log_config_associations, firewall_configs, vpcs, now, pending>>

create_firewall_rule_group(ctx, creator_request_id, name, tags) ==
    /\ idCounter < MaxIds
    /\ LET id == NewId
           arn == Arn("firewall-rule-group", ctx, id)
           firewall_rule_group ==
               [Id |-> id, Arn |-> arn, Name |-> name, RuleCount |-> 0, Status |-> "COMPLETE",
                OwnerId |-> ctx[1], ShareStatus |-> "NOT_SHARED",
                StatusMessage |-> "Created Firewall Rule Group",
                CreatorRequestId |-> creator_request_id,
                CreationTime |-> now, ModificationTime |-> now]
       IN /\ firewall_rule_groups' =
                 [firewall_rule_groups EXCEPT ![ctx] = DictSet(@, id, firewall_rule_group)]
          /\ tagger' = [tagger EXCEPT ![ctx] = Append(@, [arn |-> arn, tags |-> OrEmptyList(tags)])]
          /\ idCounter' = id
          /\ Respond("create_firewall_rule_group", ctx,
                     [creator_request_id |-> creator_request_id, name |-> name, tags |-> tags],
                     Ok, <<[FirewallRuleGroup |-> firewall_rule_group]>>)
    /\ UNCHANGED <<firewall_domain_lists, firewall_domains, firewall_rules,
                   firewall_rule_group_associations, resolver_query_log_configs,
                   resolver_query_log_config_associations, firewall_configs, vpcs, now, pending>>

delete_firewall_rule_group_keeps(ctx, firewall_rule_group_id) ==
    LET r == store_get(firewall_rule_groups[ctx], firewall_rule_group_id)
    IN /\ firewall_rule_groups' = [firewall_rule_groups EXCEPT ![ctx] = r.coll]
       /\ Respond("delete_firewall_rule_group", ctx,
                  [firewall_rule_group_id |-> firewall_rule_group_id], r.status,
                  IF r.status = Ok THEN <<[FirewallRuleGroup |-> r.record[1]]>> ELSE <<>>)
       /\ UNCHANGED <<firewall_domain_lists, firewall_domains, firewall_rules,
                      firewall_rule_group_associations, resolver_query_log_configs,
                      resolver_query_log_config_associations, firewall_configs,
                      tagger, vpcs, idCounter, now, pending>>

delete_firewall_rule_group(ctx, firewall_rule_group_id) ==
    LET r == store_delete(firewall_rule_groups[ctx], firewall_rule_group_id)
    IN /\ firewall_rule_groups' = [firewall_rule_groups EXCEPT ![ctx] = r.coll]
       /\ Respond("delete_firewall_rule_group", ctx,
                  [firewall_rule_group_id |-> firewall_rule_group_id], r.status,
                  IF r.status = Ok THEN <<[FirewallRuleGroup |-> r.record[1]]>> ELSE <<>>)
       /\ UNCHANGED <<firewall_domain_lists, firewall_domains, firewall_rules,
                      firewall_rule_group_associations, resolver_query_log_configs,
                      resolver_query_log_config_associations, firewall_configs,
                      tagger, vpcs, idCounter, now, pending>>

get_firewall_rule_group_home(ctx, firewall_rule_group_id) ==
    LET r == store_get(firewall_rule_groups[HomeScope], firewall_rule_group_id)
    IN /\ Respond("get_firewall_rule_group", ctx,
                  [firewall_rule_group_id |-> firewall_rule_group_id], r.status,
                  IF r.status = Ok THEN <<[FirewallRuleGroup |-> r.record[1]]>> ELSE <<>>)
       /\ UNCHANGED <<storeVars, tagger, vpcs, idCounter, now, pending>>

get_firewall_rule_group(ctx, firewall_rule_group_id) ==
    LET r == store_get(firewall_rule_groups[ctx], firewall_rule_group_id)
    IN /\ Respond("get_firewall_rule_group", ctx,
                  [firewall_rule_group_id |-> firewall_rule_group_id], r.status,
                  IF r.status = Ok THEN <<[FirewallRuleGroup |-> r.record[1]]>> ELSE <<>>)
       /\ UNCHANGED <<storeVars, tagger, vpcs, idCounter, now, pending>>

list_firewall_rule_groups(ctx, max_results, next_token) ==
    LET stored == Values(firewall_rule_groups[ctx])
        listed == [i \in 1..Len(stored) |->
                      select_from_typed_dict(FirewallRuleGroupMetadata, stored[i])]
    IN /\ Respond("list_firewall_rule_groups", ctx,
                  [max_results |-> max_results, next_token |-> next_token],
                  Ok, <<[FirewallRuleGroups |-> listed]>>)
       /\ UNCHANGED <<storeVars, tagger, vpcs, idCounter, now, pending>>

----------------------------------------------------------------------------
(* Firewall domain lists *)

\* The record create_firewall_domain_list builds
FirewallDomainList(ctx, id, name, creator_request_id, t) ==
    [Id |-> id, Arn |-> Arn("firewall-domain-list", ctx, id), Name |-> name, DomainCount |-> 0,
     Status |-> "COMPLETE", StatusMessage |-> "Created Firewall Domain List",
     ManagedOwnerName |-> ctx[1], CreatorRequestId |-> creator_request_id,
     CreationTime |-> t, ModificationTime |-> t]

create_firewall_domain_list(ctx, creator_request_id, name, tags) ==
    /\ idCounter < MaxIds
    /\ LET id == NewId
           arn == Arn("firewall-domain-list", ctx, id)
           firewall_domain_list == FirewallDomainList(ctx, id, name, creator_request_id, now)
       IN /\ firewall_domain_lists' =
                 [firewall_domain_lists EXCEPT ![ctx] = DictSet(@, id, firewall_domain_list)]
          /\ tagger' = [tagger EXCEPT ![ctx] = Append(@, [arn |-> arn, tags |-> OrEmptyList(tags)])]
          /\ idCounter' = id
          /\ Respond("create_firewall_domain_list", ctx,
                     [creator_request_id |-> creator_request_id, name |-> name, tags |-> tags],
                     Ok, <<[FirewallDomainList |-> firewall_domain_list]>>)
    /\ UNCHANGED <<firewall_rule_groups, firewall_domains, firewall_rules,
                   firewall_rule_group_associations, resolver_query_log_configs,
                   resolver_query_log_config_associations, firewall_configs, vpcs, now, pending>>

delete_firewall_domain_list(ctx, firewall_domain_list_id) ==
    LET r == store_delete(firewall_domain_lists[ctx], firewall_domain_list_id)
    IN /\ firewall_domain_lists' = [firewall_domain_lists EXCEPT ![ctx] = r.coll]
       /\ Respond("delete_firewall_domain_list", ctx,
                  [firewall_domain_list_id |-> firewall_domain_list_id], r.status,
                  IF r.status = Ok THEN <<[FirewallDomainList |-> r.record[1]]>> ELSE <<>>)
       /\ UNCHANGED <<firewall_rule_groups, firewall_domains, firewall_rules,
                      firewall_rule_group_associations, resolver_query_log_configs,
                      resolver_query_log_config_associations, firewall_configs,
                      tagger, vpcs, idCounter, now, pending>>

get_firewall_domain_list(ctx, firewall_domain_list_id) ==
    LET r == store_get(firewall_domain_lists[ctx], firewall_domain_list_id)
    IN /\ Respond("get_firewall_domain_list", ctx,
                  [firewall_domain_list_id |-> firewall_domain_list_id], r.status,
                  IF r.status = Ok THEN <<[FirewallDomainList |-> r.record[1]]>> ELSE <<>>)
       /\ UNCHANGED <<storeVars, tagger, vpcs, idCounter, now, pending>>

\* The loop appends to firewall_domain_list, the record (a dict) being visited, not
\* to the result list firewall_domain_lists: a dict has no append, so the first
\* stored record makes the handler raise AttributeError.
list_firewall_domain_lists(ctx, max_results, next_token) ==
    LET stored == Values(firewall_domain_lists[ctx])
    IN /\ IF Len(stored) = 0
          THEN Respond("list_firewall_domain_lists", ctx,
                       [max_results |-> max_results, next_token |-> next_token],
                       Ok, <<[FirewallDomainLists |-> <<>>]>>)
          ELSE Respond("list_firewall_domain_lists", ctx,
                       [max_results |-> max_results, next_token |-> next_token],
                       "AttributeError", <<>>)
       /\ UNCHANGED <<storeVars, tagger, vpcs, idCounter, now, pending>>

----------------------------------------------------------------------------
(* The domains of a firewall domain list *)

\* A stored element: a domain name, or (after an append of a whole list) a list
StrElem(s) == [str |-> TRUE, items |-> <<s>>]
ListElem(l) == [str |-> FALSE, items |-> l]
AsElems(domains) == [i \in 1..Len(domains) |-> StrElem(domains[i])]

\* repr of a list of strings: ['a.com', 'b.com']
RECURSIVE ReprItems(_)
ReprItems(l) ==
    IF l = <<>> THEN ""
    ELSE IF Len(l) = 1 THEN "'" \o l[1] \o "'"
    ELSE "'" \o l[1] \o "', " \o ReprItems(Tail(l))
PyRepr(l) == "[" \o ReprItems(l) \o "]"

\* FirewallDomainName(x), that is str(x)
FirewallDomainName(e) == IF e.str THEN e.items[1] ELSE PyRepr(e.items)

\* Route53ResolverStore.get_firewall_domain(id): the stored list, or None
get_firewall_domain(fd, id) ==
    IF HasKey(fd, id) THEN Some(DictGet(fd, id)) ELSE None

ListRemoveLast(l, e) ==
    LET i == CHOOSE j \in 1..Len(l) : l[j] = e /\ \A m \in (j + 1)..Len(l) : l[m] # e
    IN SubSeq(l, 1, i - 1) \o SubSeq(l, i + 1, Len(l))

\* list.remove(x): deletes the first occurrence of x
ListRemove(l, e) ==
    LET i == CHOOSE j \in 1..Len(l) : l[j] = e /\ \A m \in 1..(j - 1) : l[m] # e
    IN SubSeq(l, 1, i - 1) \o SubSeq(l, i + 1, Len(l))

\* The REMOVE loop over the input, on the live stored list
RECURSIVE RemoveEach(_, _)
RemoveEach(stored, domains) ==
    IF domains = <<>> THEN [stored |-> stored, status |-> Ok]
    ELSE IF StrElem(Head(domains)) \in Range(stored)
         THEN RemoveEach(ListRemove(stored, StrElem(Head(domains))), Tail(domains))
         ELSE [stored |-> stored, status |-> Validation]

\* What the three operations make of the stored domains: the new dict of domains and
\* whether the handler raised
DomainsAdd(fd, id, firewall_domains_, domains) ==
    IF firewall_domains_ = None \/ firewall_domains_ = Some(<<>>)
    THEN [fd |-> DictSet(fd, id, AsElems(domains)), status |-> Ok]
    ELSE [fd |-> DictSet(fd, id, Append(DictGet(fd, id), ListElem(domains))), status |-> Ok]

DomainsRemove(fd, id, firewall_domains_, domains) ==
    IF firewall_domains_ = None \/ firewall_domains_ = Some(<<>>)
    THEN [fd |-> fd, status |-> Ok]
    ELSE LET r == RemoveEach(firewall_domains_[1], domains)
         IN [fd |-> DictSet(fd, id, r.stored), status |-> r.status]

DomainsReplaceIfAny(fd, id, firewall_domains_, domains) ==
    IF firewall_domains_ = None \/ firewall_domains_ = Some(<<>>)
    THEN [fd |-> fd, status |-> Ok]
    ELSE [fd |-> DictSet(fd, id, AsElems(domains)), status |-> Ok]

DomainsReplace(fd, id, firewall_domains_, domains) ==
    [fd |-> DictSet(fd, id, AsElems(domains)), status |-> Ok]

FinishedUpdateStale(firewall_domain_list, t) ==
    [firewall_domain_list EXCEPT !.StatusMessage = "Finished domain list update"]

\* the two assignments to the parent record that end the handler
FinishedUpdate(firewall_domain_list, t) ==
    [firewall_domain_list EXCEPT
        !.StatusMessage = "Finished domain list update", !.ModificationTime = t]

StoredLen(fd, id) == IF HasKey(fd, id) THEN Len(DictGet(fd, id)) ELSE 0

update_firewall_domains(ctx, firewall_domain_list_id, operation, domains) ==
    LET got == store_get(firewall_domain_lists[ctx], firewall_domain_list_id)
        args == [firewall_domain_list_id |-> firewall_domain_list_id,
                 operation |-> operation, domains |-> domains]
    IN IF got.status # Ok
       THEN /\ Respond("update_firewall_domains", ctx, args, NotFound, <<>>)
            /\ UNCHANGED <<storeVars, tagger, vpcs, idCounter, now, pending>>
       ELSE LET firewall_domain_list == got.record[1]
                firewall_domains_ == get_firewall_domain(firewall_domains[ctx], firewall_domain_list_id)
                fd == firewall_domains[ctx]
                r == CASE operation = "ADD" ->
                              DomainsAdd(fd, firewall_domain_list_id, firewall_domains_, domains)
                       [] operation = "REMOVE" ->
                              DomainsRemove(fd, firewall_domain_list_id, firewall_domains_, domains)
                       [] operation = "REPLACE" ->
                              DomainsReplace(fd, firewall_domain_list_id, firewall_domains_, domains)
                updated == FinishedUpdate(firewall_domain_list, now)
            IN /\ StoredLen(r.fd, firewall_domain_list_id) <= MaxDomains
               /\ firewall_domains' = [firewall_domains EXCEPT ![ctx] = r.fd]
               /\ IF r.status = Ok
                  THEN /\ firewall_domain_lists' =
                              [firewall_domain_lists EXCEPT
                                  ![ctx] = DictSet(@, firewall_domain_list_id, updated)]
                       /\ Respond("update_firewall_domains", ctx, args, Ok,
                                  <<[Id |-> updated.Id, Name |-> updated.Name,
                                     Status |-> updated.Status,
                                     StatusMessage |-> updated.StatusMessage]>>)
                  ELSE /\ UNCHANGED firewall_domain_lists
                       /\ Respond("update_firewall_domains", ctx, args, r.status, <<>>)
               /\ UNCHANGED <<firewall_rule_groups, firewall_rules,
                              firewall_rule_group_associations, resolver_query_log_configs,
                              resolver_query_log_config_associations, firewall_configs,
                              tagger, vpcs, idCounter, now, pending>>

\* What list_firewall_domains returns for the list id, fd being the scope's
\* store.firewall_domains
ListedDomains(fd, firewall_domain_list_id) ==
    LET stored == get_firewall_domain(fd, firewall_domain_list_id)
    IN IF stored = None \/ stored = Some(<<>>)
       THEN <<>>
       ELSE [i \in 1..Len(stored[1]) |-> FirewallDomainName(stored[1][i])]

list_firewall_domains(ctx, firewall_domain_list_id, max_results, next_token) ==
    /\ Respond("list_firewall_domains", ctx,
               [firewall_domain_list_id |-> firewall_domain_list_id,
                max_results |-> max_results, next_token |-> next_token],
               Ok, <<[Domains |-> ListedDomains(firewall_domains[ctx], firewall_domain_list_id)]>>)
    /\ UNCHANGED <<storeVars, tagger, vpcs, idCounter, now, pending>>

----------------------------------------------------------------------------
(* Firewall rule group associations *)

\* The accepted priority range and mutation protection values
PriorityMin == 100
PriorityMax == 9900
MutationProtectionStatuses == {"ENABLED", "DISABLED"}

\* validate_priority(priority): an omitted priority passes
validate_priority(priority) ==
    priority = None \/ (priority[1] >= PriorityMin /\ priority[1] <= PriorityMax)

\* validate_mutation_protection(mutation_protection): an omitted value passes
validate_mutation_protection(mutation_protection) ==
    mutation_protection = None \/ mutation_protection[1] \in MutationProtectionStatuses

AssociationExistsEither(associations, vpc_id, firewall_rule_group_id) ==
    \E i \in 1..Len(associations) :
        \/ associations[i].v.VpcId = vpc_id
        \/ associations[i].v.FirewallRuleGroupId = firewall_rule_group_id

AssociationExistsById(associations, vpc_id, firewall_rule_group_id) ==
    \E i \in 1..Len(associations) :
        /\ associations[i].v.VpcId = vpc_id
        /\ associations[i].v.Id = firewall_rule_group_id

\* The scan of the stored associations for the (VpcId, FirewallRuleGroupId) pair
AssociationExistsNever(associations, vpc_id, firewall_rule_group_id) == FALSE

AssociationExists(associations, vpc_id, firewall_rule_group_id) ==
    \E i \in 1..Len(associations) :
        /\ associations[i].v.VpcId = vpc_id
        /\ associations[i].v.FirewallRuleGroupId = firewall_rule_group_id

associate_firewall_rule_group(ctx, creator_request_id, firewall_rule_group_id, vpc_id, priority, name, mutation_protection, tags) ==
    LET args == [creator_request_id |-> creator_request_id,
                 firewall_rule_group_id |-> firewall_rule_group_id, vpc_id |-> vpc_id,
                 priority |-> priority, name |-> name,
                 mutation_protection |-> mutation_protection, tags |-> tags]
    IN IF \/ ~validate_priority(Some(priority))
          \/ ~validate_mutation_protection(mutation_protection)
          \/ AssociationExists(firewall_rule_group_associations[ctx], vpc_id,
                               firewall_rule_group_id)
       THEN /\ Respond("associate_firewall_rule_group", ctx, args, Validation, <<>>)
            /\ UNCHANGED <<storeVars, tagger, vpcs, idCounter, now, pending>>
       ELSE /\ idCounter < MaxIds
            /\ LET id == NewId
                   arn == Arn("firewall-rule-group-association", ctx, id)
                   firewall_rule_group_association ==
                       [Id |-> id, Arn |-> arn,
                        FirewallRuleGroupId |-> firewall_rule_group_id, VpcId |-> vpc_id,
                        Name |-> name, Priority |-> priority,
                        MutationProtection |->
                            IF TruthyStr(mutation_protection) THEN mutation_protection[1]
                            ELSE "DISABLED",
                        Status |-> "COMPLETE",
                        StatusMessage |-> "Creating Firewall Rule Group Association",
                        CreatorRequestId |-> creator_request_id,
                        CreationTime |-> now, ModificationTime |-> now]
               IN /\ firewall_rule_group_associations' =
                         [firewall_rule_group_associations EXCEPT
                             ![ctx] = DictSet(@, id, firewall_rule_group_association)]
                  /\ tagger' = [tagger EXCEPT
                                   ![ctx] = Append(@, [arn |-> arn, tags |-> OrEmptyList(tags)])]
                  /\ idCounter' = id
                  /\ Respond("associate_firewall_rule_group", ctx, args, Ok,
                             <<[FirewallRuleGroupAssociation |-> firewall_rule_group_association]>>)
            /\ UNCHANGED <<firewall_rule_groups, firewall_domain_lists, firewall_domains,
                           firewall_rules, resolver_query_log_configs,
                           resolver_query_log_config_associations, firewall_configs, vpcs, now, pending>>

\* associate_firewall_rule_group run by one of several concurrent callers, in the two
\* steps between which another thread can run: the validations and the scan for the
\* pair, then the generation of id and ARN, the insert and the tagging. A call that
\* passed the scan is pending with its arguments and the ids the scan visited.
associate_firewall_rule_group_scan(caller, ctx, creator_request_id, firewall_rule_group_id, vpc_id, priority, name, mutation_protection, tags) ==
    LET args == [creator_request_id |-> creator_request_id,
                 firewall_rule_group_id |-> firewall_rule_group_id, vpc_id |-> vpc_id,
                 priority |-> priority, name |-> name,
                 mutation_protection |-> mutation_protection, tags |-> tags]
    IN /\ pending[caller] = None
       /\ IF \/ ~validate_priority(Some(priority))
             \/ ~validate_mutation_protection(mutation_protection)
             \/ AssociationExists(firewall_rule_group_associations[ctx], vpc_id,
                                  firewall_rule_group_id)
          THEN /\ Respond("associate_firewall_rule_group", ctx, args, Validation, <<>>)
               /\ UNCHANGED <<storeVars, tagger, vpcs, idCounter, now, pending>>
          ELSE /\ pending' = [pending EXCEPT
                                 ![caller] = Some([ctx |-> ctx, args |-> args,
                                                   seen |-> Keys(firewall_rule_group_associations[ctx])])]
               /\ UNCHANGED <<storeVars, tagger, vpcs, idCounter, now, response>>

associate_firewall_rule_group_insert(caller) ==
    /\ pending[caller] # None
    /\ idCounter < MaxIds
    /\ LET ctx == pending[caller][1].ctx
           args == pending[caller][1].args
           id == NewId
           arn == Arn("firewall-rule-group-association", ctx, id)
           firewall_rule_group_association ==
               [Id |-> id, Arn |-> arn,
                FirewallRuleGroupId |-> args.firewall_rule_group_id, VpcId |-> args.vpc_id,
                Name |-> args.name, Priority |-> args.priority,
                MutationProtection |->
                    IF TruthyStr(args.mutation_protection) THEN args.mutation_protection[1]
                    ELSE "DISABLED",
                Status |-> "COMPLETE",
                StatusMessage |-> "Creating Firewall Rule Group Association",
                CreatorRequestId |-> args.creator_request_id,
                CreationTime |-> now, ModificationTime |-> now]
       IN /\ firewall_rule_group_associations' =
                 [firewall_rule_group_associations EXCEPT
                     ![ctx] = DictSet(@, id, firewall_rule_group_association)]
          /\ tagger' = [tagger EXCEPT
                           ![ctx] = Append(@, [arn |-> arn, tags |-> OrEmptyList(args.tags)])]
          /\ idCounter' = id
          /\ pending' = [pending EXCEPT ![caller] = None]
          /\ Respond("associate_firewall_rule_group", ctx, args, Ok,
                     <<[FirewallRuleGroupAssociation |-> firewall_rule_group_association]>>)
    /\ UNCHANGED <<firewall_rule_groups, firewall_domain_lists, firewall_domains,
                   firewall_rules, resolver_query_log_configs,
                   resolver_query_log_config_associations, firewall_configs, vpcs, now>>

disassociate_firewall_rule_group(ctx, firewall_rule_group_association_id) ==
    LET r == store_delete(firewall_rule_group_associations[ctx],
                          firewall_rule_group_association_id)
    IN /\ firewall_rule_group_associations' =
              [firewall_rule_group_associations EXCEPT ![ctx] = r.coll]
       /\ Respond("disassociate_firewall_rule_group", ctx,
                  [firewall_rule_group_association_id |-> firewall_rule_group_association_id],
                  r.status,
                  IF r.status = Ok THEN <<[FirewallRuleGroupAssociation |-> r.record[1]]>>
                  ELSE <<>>)
       /\ UNCHANGED <<firewall_rule_groups, firewall_domain_lists, firewall_domains,
                      firewall_rules, resolver_query_log_configs,
                      resolver_query_log_config_associations, firewall_configs,
                      tagger, vpcs, idCounter, now, pending>>

get_firewall_rule_group_association(ctx, firewall_rule_group_association_id) ==
    LET r == store_get(firewall_rule_group_associations[ctx],
                       firewall_rule_group_association_id)
    IN /\ Respond("get_firewall_rule_group_association", ctx,
                  [firewall_rule_group_association_id |-> firewall_rule_group_association_id],
                  r.status,
                  IF r.status = Ok THEN <<[FirewallRuleGroupAssociation |-> r.record[1]]>>
                  ELSE <<>>)
       /\ UNCHANGED <<storeVars, tagger, vpcs, idCounter, now, pending>>

update_firewall_rule_group_association_late_check(ctx, firewall_rule_group_association_id, priority, mutation_protection, name) ==
    LET args == [firewall_rule_group_association_id |-> firewall_rule_group_association_id,
                 priority |-> priority, mutation_protection |-> mutation_protection,
                 name |-> name]
        got == store_get(firewall_rule_group_associations[ctx],
                         firewall_rule_group_association_id)
    IN IF got.status # Ok
       THEN /\ Respond("update_firewall_rule_group_association", ctx, args, NotFound, <<>>)
            /\ UNCHANGED <<storeVars, tagger, vpcs, idCounter, now, pending>>
       ELSE LET a0 == got.record[1]
                a1 == IF TruthyInt(priority) THEN [a0 EXCEPT !.Priority = priority[1]] ELSE a0
                a2 == IF TruthyStr(mutation_protection)
                      THEN [a1 EXCEPT !.MutationProtection = mutation_protection[1]] ELSE a1
                a3 == IF TruthyStr(name) THEN [a2 EXCEPT !.Name = name[1]] ELSE a2
            IN /\ firewall_rule_group_associations' =
                      [firewall_rule_group_associations EXCEPT
                          ![ctx] = DictSet(@, firewall_rule_group_association_id, a3)]
               /\ IF ~validate_priority(priority) \/ ~validate_mutation_protection(mutation_protection)
                  THEN Respond("update_firewall_rule_group_association", ctx, args, Validation, <<>>)
                  ELSE Respond("update_firewall_rule_group_association", ctx, args, Ok,
                               <<[FirewallRuleGroupAssociation |-> a3]>>)
               /\ UNCHANGED <<firewall_rule_groups, firewall_domain_lists, firewall_domains,
                              firewall_rules, resolver_query_log_configs,
                              resolver_query_log_config_associations, firewall_configs,
                              tagger, vpcs, idCounter, now, pending>>

update_firewall_rule_group_association(ctx, firewall_rule_group_association_id, priority, mutation_protection, name) ==
    LET args == [firewall_rule_group_association_id |-> firewall_rule_group_association_id,
                 priority |-> priority, mutation_protection |-> mutation_protection,
                 name |-> name]
        got == store_get(firewall_rule_group_associations[ctx],
                         firewall_rule_group_association_id)
    IN IF ~validate_priority(priority) \/ ~validate_mutation_protection(mutation_protection)
       THEN /\ Respond("update_firewall_rule_group_association", ctx, args, Validation, <<>>)
            /\ UNCHANGED <<storeVars, tagger, vpcs, idCounter, now, pending>>
       ELSE IF got.status # Ok
       THEN /\ Respond("update_firewall_rule_group_association", ctx, args, NotFound, <<>>)
            /\ UNCHANGED <<storeVars, tagger, vpcs, idCounter, now, pending>>
       ELSE LET a0 == got.record[1]
                a1 == IF TruthyInt(priority) THEN [a0 EXCEPT !.Priority = priority[1]] ELSE a0
                a2 == IF TruthyStr(mutation_protection)
                      THEN [a1 EXCEPT !.MutationProtection = mutation_protection[1]] ELSE a1
                a3 == IF TruthyStr(name) THEN [a2 EXCEPT !.Name = name[1]] ELSE a2
            IN /\ firewall_rule_group_associations' =
                      [firewall_rule_group_associations EXCEPT
                          ![ctx] = DictSet(@, firewall_rule_group_association_id, a3)]
               /\ Respond("update_firewall_rule_group_association", ctx, args, Ok,
                          <<[FirewallRuleGroupAssociation |-> a3]>>)
               /\ UNCHANGED <<firewall_rule_groups, firewall_domain_lists, firewall_domains,
                              firewall_rules, resolver_query_log_configs,
                              resolver_query_log_config_associations, firewall_configs,
                              tagger, vpcs, idCounter, now, pending>>

----------------------------------------------------------------------------
(* Firewall rules *)

\* Route53ResolverStore.get_firewall_rule(group id, domain list id): the rule, or
\* Not-Found; rules is the scope's store.firewall_rules
get_firewall_rule(rules, firewall_rule_group_id, firewall_domain_list_id) ==
    IF /\ HasKey(rules, firewall_rule_group_id)
       /\ HasKey(DictGet(rules, firewall_rule_group_id), firewall_domain_list_id)
    THEN [status |-> Ok,
          record |-> <<DictGet(DictGet(rules, firewall_rule_group_id), firewall_domain_list_id)>>]
    ELSE [status |-> NotFound, record |-> <<>>]

create_firewall_rule(ctx, creator_request_id, firewall_rule_group_id, firewall_domain_list_id, priority, action, name, block_response, block_override_domain, block_override_dns_type, block_override_ttl) ==
    LET firewall_rule ==
            [FirewallRuleGroupId |-> firewall_rule_group_id,
             FirewallDomainListId |-> firewall_domain_list_id,
             Name |-> name, Priority |-> priority, Action |-> action,
             BlockResponse |-> block_response,
             BlockOverrideDomain |-> block_override_domain,
             BlockOverrideDnsType |-> block_override_dns_type,
             BlockOverrideTtl |-> block_override_ttl,
             CreatorRequestId |-> creator_request_id,
             CreationTime |-> now, ModificationTime |-> now]
        rules == firewall_rules[ctx]
        group == IF HasKey(rules, firewall_rule_group_id) /\ DictGet(rules, firewall_rule_group_id) # EmptyDict
                 THEN DictGet(rules, firewall_rule_group_id)
                 ELSE EmptyDict
    IN /\ firewall_rules' =
              [firewall_rules EXCEPT
                  ![ctx] = DictSet(@, firewall_rule_group_id,
                                   DictSet(group, firewall_domain_list_id, firewall_rule))]
       /\ Respond("create_firewall_rule", ctx,
                  [creator_request_id |-> creator_request_id,
                   firewall_rule_group_id |-> firewall_rule_group_id,
                   firewall_domain_list_id |-> firewall_domain_list_id,
                   priority |-> priority, action |-> action, name |-> name,
                   block_response |-> block_response,
                   block_override_domain |-> block_override_domain,
                   block_override_dns_type |-> block_override_dns_type,
                   block_override_ttl |-> block_override_ttl],
                  Ok, <<[FirewallRule |-> firewall_rule]>>)
       /\ UNCHANGED <<firewall_rule_groups, firewall_domain_lists, firewall_domains,
                      firewall_rule_group_associations, resolver_query_log_configs,
                      resolver_query_log_config_associations, firewall_configs,
                      tagger, vpcs, idCounter, now, pending>>

\* Route53ResolverStore.delete_firewall_rule: removes the rule of the pair from the
\* group's mapping and returns it, or Not-Found
delete_firewall_rule(ctx, firewall_rule_group_id, firewall_domain_list_id) ==
    LET rules == firewall_rules[ctx]
        got == get_firewall_rule(rules, firewall_rule_group_id, firewall_domain_list_id)
        args == [firewall_rule_group_id |-> firewall_rule_group_id,
                 firewall_domain_list_id |-> firewall_domain_list_id]
    IN IF got.status # Ok
       THEN /\ Respond("delete_firewall_rule", ctx, args, NotFound, <<>>)
            /\ UNCHANGED <<storeVars, tagger, vpcs, idCounter, now, pending>>
       ELSE /\ firewall_rules' =
                   [firewall_rules EXCEPT
                       ![ctx] = DictSet(@, firewall_rule_group_id,
                                        DictPop(DictGet(rules, firewall_rule_group_id),
                                                firewall_domain_list_id))]
            /\ Respond("delete_firewall_rule", ctx, args, Ok, <<[FirewallRule |-> got.record[1]]>>)
            /\ UNCHANGED <<firewall_rule_groups, firewall_domain_lists, firewall_domains,
                           firewall_rule_group_associations, resolver_query_log_configs,
                           resolver_query_log_config_associations, firewall_configs,
                           tagger, vpcs, idCounter, now, pending>>

list_firewall_rules_unknown_only(ctx, firewall_rule_group_id, priority, action, max_results, next_token) ==
    LET rules == firewall_rules[ctx]
        listed == IF HasKey(rules, firewall_rule_group_id)
                  THEN Values(DictGet(rules, firewall_rule_group_id))
                  ELSE <<>>
        args == [firewall_rule_group_id |-> firewall_rule_group_id, priority |-> priority,
                 action |-> action, max_results |-> max_results, next_token |-> next_token]
    IN /\ IF ~HasKey(rules, firewall_rule_group_id)
          THEN Respond("list_firewall_rules", ctx, args, NotFound, <<>>)
          ELSE Respond("list_firewall_rules", ctx, args, Ok, <<[FirewallRules |-> listed]>>)
       /\ UNCHANGED <<storeVars, tagger, vpcs, idCounter, now, pending>>

list_firewall_rules(ctx, firewall_rule_group_id, priority, action, max_results, next_token) ==
    LET rules == firewall_rules[ctx]
        listed == IF HasKey(rules, firewall_rule_group_id)
                  THEN Values(DictGet(rules, firewall_rule_group_id))
                  ELSE <<>>
        args == [firewall_rule_group_id |-> firewall_rule_group_id, priority |-> priority,
                 action |-> action, max_results |-> max_results, next_token |-> next_token]
    IN /\ IF Len(listed) = 0
          THEN Respond("list_firewall_rules", ctx, args, NotFound, <<>>)
          ELSE Respond("list_firewall_rules", ctx, args, Ok, <<[FirewallRules |-> listed]>>)
       /\ UNCHANGED <<storeVars, tagger, vpcs, idCounter, now, pending>>

update_firewall_rule(ctx, firewall_rule_group_id, firewall_domain_list_id, priority, action, block_response, block_override_domain, block_override_dns_type, block_override_ttl, name) ==
    LET rules == firewall_rules[ctx]
        got == get_firewall_rule(rules, firewall_rule_group_id, firewall_domain_list_id)
        args == [firewall_rule_group_id |-> firewall_rule_group_id,
                 firewall_domain_list_id |-> firewall_domain_list_id,
                 priority |-> priority, action |-> action, block_response |-> block_response,
                 block_override_domain |-> block_override_domain,
                 block_override_dns_type |-> block_override_dns_type,
                 block_override_ttl |-> block_override_ttl, name |-> name]
    IN IF got.status # Ok
       THEN /\ Respond("update_firewall_rule", ctx, args, NotFound, <<>>)
            /\ UNCHANGED <<storeVars, tagger, vpcs, idCounter, now, pending>>
       ELSE LET r0 == got.record[1]
                r1 == IF TruthyInt(priority) THEN [r0 EXCEPT !.Priority = priority[1]] ELSE r0
                r2 == IF TruthyStr(action) THEN [r1 EXCEPT !.Action = action[1]] ELSE r1
                r3 == IF TruthyStr(block_response)
                      THEN [r2 EXCEPT !.BlockResponse = block_response] ELSE r2
                r4 == IF TruthyStr(block_override_domain)
                      THEN [r3 EXCEPT !.BlockOverrideDomain = block_override_domain] ELSE r3
                r5 == IF TruthyStr(block_override_dns_type)
                      THEN [r4 EXCEPT !.BlockOverrideDnsType = block_override_dns_type] ELSE r4
                r6 == IF TruthyInt(block_override_ttl)
                      THEN [r5 EXCEPT !.BlockOverrideTtl = block_override_ttl] ELSE r5
                r7 == IF TruthyStr(name) THEN [r6 EXCEPT !.Name = name[1]] ELSE r6
            IN /\ firewall_rules' =
                      [firewall_rules EXCEPT
                          ![ctx] = DictSet(@, firewall_rule_group_id,
                                           DictSet(DictGet(rules, firewall_rule_group_id),
                                                   firewall_domain_list_id, r7))]
               /\ Respond("update_firewall_rule", ctx, args, Ok, <<[FirewallRule |-> r7]>>)
               /\ UNCHANGED <<firewall_rule_groups, firewall_domain_lists, firewall_domains,
                              firewall_rule_group_associations, resolver_query_log_configs,
                              resolver_query_log_config_associations, firewall_configs,
                              tagger, vpcs, idCounter, now, pending>>

----------------------------------------------------------------------------
(* Resolver query log configs *)

\* validate_destination_arn(arn): an ARN is the sequence of its ":"-separated parts,
\* arn:partition:service:region:account:resource
validate_destination_arn(destination_arn) ==
    Len(destination_arn) = 6 /\ destination_arn[1] = "arn"

create_resolver_query_log_config(ctx, name, destination_arn, creator_request_id, tags) ==
    LET args == [name |-> name, destination_arn |-> destination_arn,
                 creator_request_id |-> creator_request_id, tags |-> tags]
    IN IF ~validate_destination_arn(destination_arn)
       THEN /\ Respond("create_resolver_query_log_config", ctx, args, Validation, <<>>)
            /\ UNCHANGED <<storeVars, tagger, vpcs, idCounter, now, pending>>
       ELSE /\ idCounter < MaxIds
            /\ LET id == NewId
                   arn == Arn("resolver-query-log-config", ctx, id)
                   resolver_query_log_config ==
                       [Id |-> id, Arn |-> arn, Name |-> name, AssociationCount |-> 0,
                        Status |-> "CREATED", OwnerId |-> ctx[1], ShareStatus |-> "NOT_SHARED",
                        DestinationArn |-> destination_arn,
                        CreatorRequestId |-> creator_request_id, CreationTime |-> now]
               IN /\ resolver_query_log_configs' =
                         [resolver_query_log_configs EXCEPT
                             ![ctx] = DictSet(@, id, resolver_query_log_config)]
                  /\ tagger' = [tagger EXCEPT
                                   ![ctx] = Append(@, [arn |-> arn, tags |-> OrEmptyList(tags)])]
                  /\ idCounter' = id
                  /\ Respond("create_resolver_query_log_config", ctx, args, Ok,
                             <<[ResolverQueryLogConfig |-> resolver_query_log_config]>>)
            /\ UNCHANGED <<firewall_rule_groups, firewall_domain_lists, firewall_domains,
                           firewall_rules, firewall_rule_group_associations,
                           resolver_query_log_config_associations, firewall_configs, vpcs, now, pending>>

get_resolver_query_log_config(ctx, resolver_query_log_config_id) ==
    LET r == store_get(resolver_query_log_configs[ctx], resolver_query_log_config_id)
    IN /\ Respond("get_resolver_query_log_config", ctx,
                  [resolver_query_log_config_id |-> resolver_query_log_config_id], r.status,
                  IF r.status = Ok THEN <<[ResolverQueryLogConfig |-> r.record[1]]>> ELSE <<>>)
       /\ UNCHANGED <<storeVars, tagger, vpcs, idCounter, now, pending>>

delete_resolver_query_log_config(ctx, resolver_query_log_config_id) ==
    LET r == store_delete(resolver_query_log_configs[ctx], resolver_query_log_config_id)
    IN /\ resolver_query_log_configs' = [resolver_query_log_configs EXCEPT ![ctx] = r.coll]
       /\ Respond("delete_resolver_query_log_config", ctx,
                  [resolver_query_log_config_id |-> resolver_query_log_config_id], r.status,
                  IF r.status = Ok THEN <<[ResolverQueryLogConfig |-> r.record[1]]>> ELSE <<>>)
       /\ UNCHANGED <<firewall_rule_groups, firewall_domain_lists, firewall_domains,
                      firewall_rules, firewall_rule_group_associations,
                      resolver_query_log_config_associations, firewall_configs,
                      tagger, vpcs, idCounter, now, pending>>

associate_resolver_query_log_config_unique(ctx, resolver_query_log_config_id, resource_id) ==
    LET stored == Values(resolver_query_log_config_associations[ctx])
        args == [resolver_query_log_config_id |-> resolver_query_log_config_id,
                 resource_id |-> resource_id]
    IN IF \E i \in 1..Len(stored) :
              /\ stored[i].ResolverQueryLogConfigId = resolver_query_log_config_id
              /\ stored[i].ResourceId = resource_id
       THEN /\ Respond("associate_resolver_query_log_config", ctx, args, Validation, <<>>)
            /\ UNCHANGED <<storeVars, tagger, vpcs, idCounter, now, pending>>
       ELSE /\ idCounter < MaxIds
            /\ LET id == NewId
                   resolver_query_log_config_association ==
                       [Id |-> id, ResolverQueryLogConfigId |-> resolver_query_log_config_id,
                        ResourceId |-> resource_id, Status |-> "ACTIVE", Error |-> "NONE",
                        ErrorMessage |-> "", CreationTime |-> now]
               IN /\ resolver_query_log_config_associations' =
                         [resolver_query_log_config_associations EXCEPT
                             ![ctx] = DictSet(@, id, resolver_query_log_config_association)]
                  /\ idCounter' = id
                  /\ Respond("associate_resolver_query_log_config", ctx, args, Ok,
                             <<[ResolverQueryLogConfigAssociation |->
                                   resolver_query_log_config_association]>>)
            /\ UNCHANGED <<firewall_rule_groups, firewall_domain_lists, firewall_domains,
                           firewall_rules, firewall_rule_group_associations,
                           resolver_query_log_configs, firewall_configs, tagger, vpcs, now,
                           pending>>

associate_resolver_query_log_config(ctx, resolver_query_log_config_id, resource_id) ==
    /\ idCounter < MaxIds
    /\ LET id == NewId
           resolver_query_log_config_association ==
               [Id |-> id, ResolverQueryLogConfigId |-> resolver_query_log_config_id,
                ResourceId |-> resource_id, Status |-> "ACTIVE", Error |-> "NONE",
                ErrorMessage |-> "", CreationTime |-> now]
       IN /\ resolver_query_log_config_associations' =
                 [resolver_query_log_config_associations EXCEPT
                     ![ctx] = DictSet(@, id, resolver_query_log_config_association)]
          /\ idCounter' = id
          /\ Respond("associate_resolver_query_log_config", ctx,
                     [resolver_query_log_config_id |-> resolver_query_log_config_id,
                      resource_id |-> resource_id], Ok,
                     <<[ResolverQueryLogConfigAssociation |->
                           resolver_query_log_config_association]>>)
    /\ UNCHANGED <<firewall_rule_groups, firewall_domain_lists, firewall_domains,
                   firewall_rules, firewall_rule_group_associations,
                   resolver_query_log_configs, firewall_configs, tagger, vpcs, now, pending>>

list_resolver_query_log_config_associations(ctx, max_results, next_token, filters, sort_by, sort_order) ==
    LET listed == Values(resolver_query_log_config_associations[ctx])
    IN /\ Respond("list_resolver_query_log_config_associations", ctx,
                  [max_results |-> max_results, next_token |-> next_token, filters |-> filters,
                   sort_by |-> sort_by, sort_order |-> sort_order], Ok,
                  <<[TotalCount |-> Len(listed),
                     ResolverQueryLogConfigAssociations |-> listed]>>)
       /\ UNCHANGED <<storeVars, tagger, vpcs, idCounter, now, pending>>

----------------------------------------------------------------------------
(* Firewall configs *)

DefaultFirewallFailOpen == "DISABLED"

\* Route53ResolverStore.get_or_create_firewall_config(resource_id, region, account_id):
\* the stored config of resource_id, or a new one with the default FirewallFailOpen,
\* inserted. configs is the scope's store.firewall_configs, counter the identifiers
\* generated so far.
get_or_create_firewall_config(configs, counter, resource_id, region, account_id) ==
    IF HasKey(configs, resource_id)
    THEN [configs |-> configs, counter |-> counter, config |-> DictGet(configs, resource_id)]
    ELSE LET firewall_config ==
                 [Id |-> counter + 1, ResourceId |-> resource_id, OwnerId |-> account_id,
                  FirewallFailOpen |-> DefaultFirewallFailOpen]
         IN [configs |-> DictSet(configs, resource_id, firewall_config),
             counter |-> counter + 1, config |-> firewall_config]

get_firewall_config_resets(ctx, resource_id) ==
    LET firewall_config ==
            [Id |-> idCounter + 1, ResourceId |-> resource_id, OwnerId |-> ctx[1],
             FirewallFailOpen |-> DefaultFirewallFailOpen]
    IN /\ idCounter + 1 <= MaxIds
       /\ firewall_configs' = [firewall_configs EXCEPT ![ctx] = DictSet(@, resource_id, firewall_config)]
       /\ idCounter' = idCounter + 1
       /\ Respond("get_firewall_config", ctx, [resource_id |-> resource_id], Ok,
                  <<[FirewallConfig |-> firewall_config]>>)
       /\ UNCHANGED <<firewall_rule_groups, firewall_domain_lists, firewall_domains,
                      firewall_rules, firewall_rule_group_associations,
                      resolver_query_log_configs, resolver_query_log_config_associations,
                      tagger, vpcs, now, pending>>

get_firewall_config(ctx, resource_id) ==
    LET r == get_or_create_firewall_config(firewall_configs[ctx], idCounter, resource_id,
                                           ctx[2], ctx[1])
    IN /\ r.counter <= MaxIds
       /\ firewall_configs' = [firewall_configs EXCEPT ![ctx] = r.configs]
       /\ idCounter' = r.counter
       /\ Respond("get_firewall_config", ctx, [resource_id |-> resource_id], Ok,
                  <<[FirewallConfig |-> r.config]>>)
       /\ UNCHANGED <<firewall_rule_groups, firewall_domain_lists, firewall_domains,
                      firewall_rules, firewall_rule_group_associations,
                      resolver_query_log_configs, resolver_query_log_config_associations,
                      tagger, vpcs, now, pending>>

FirewallConfig == {"Id", "ResourceId", "OwnerId", "FirewallFailOpen"}

\* The first loop of list_firewall_configs: a config for every VPC that has none
CreateMissingConfigsNone(configs, counter, vpc_ids, ctx) == [configs |-> configs, counter |-> counter]

RECURSIVE CreateMissingConfigs(_, _, _, _)
CreateMissingConfigs(configs, counter, vpc_ids, ctx) ==
    IF vpc_ids = <<>> THEN [configs |-> configs, counter |-> counter]
    ELSE IF ~HasKey(configs, Head(vpc_ids))
         THEN LET r == get_or_create_firewall_config(configs, counter, Head(vpc_ids),
                                                     ctx[2], ctx[1])
              IN CreateMissingConfigs(r.configs, r.counter, Tail(vpc_ids), ctx)
         ELSE CreateMissingConfigs(configs, counter, Tail(vpc_ids), ctx)

list_firewall_configs(ctx, max_results, next_token) ==
    LET r == CreateMissingConfigs(firewall_configs[ctx], idCounter, vpcs[ctx], ctx)
        stored == Values(r.configs)
        listed == [i \in 1..Len(stored) |-> select_from_typed_dict(FirewallConfig, stored[i])]
    IN /\ r.counter <= MaxIds
       /\ firewall_configs' = [firewall_configs EXCEPT ![ctx] = r.configs]
       /\ idCounter' = r.counter
       /\ Respond("list_firewall_configs", ctx,
                  [max_results |-> max_results, next_token |-> next_token],
                  Ok, <<[FirewallConfigs |-> listed]>>)
       /\ UNCHANGED <<firewall_rule_groups, firewall_domain_lists, firewall_domains,
                      firewall_rules, firewall_rule_group_associations,
                      resolver_query_log_configs, resolver_query_log_config_associations,
                      tagger, vpcs, now, pending>>

\* The loop of update_firewall_config. Its loop variable is named resource_id, as the
\* parameter is: every VPC of the backend gets the value, and the config of the last
\* VPC is the one left in firewall_config.
RECURSIVE SetEveryConfig(_, _, _, _, _, _)
SetEveryConfig(configs, counter, last, vpc_ids, ctx, firewall_fail_open) ==
    IF vpc_ids = <<>> THEN [configs |-> configs, counter |-> counter, last |-> last]
    ELSE LET r == get_or_create_firewall_config(configs, counter, Head(vpc_ids), ctx[2], ctx[1])
             firewall_config == [r.config EXCEPT !.FirewallFailOpen = firewall_fail_open]
         IN SetEveryConfig(DictSet(r.configs, Head(vpc_ids), firewall_config), r.counter,
                           <<firewall_config>>, Tail(vpc_ids), ctx, firewall_fail_open)

update_firewall_config(ctx, resource_id, firewall_fail_open) ==
    LET r == SetEveryConfig(firewall_configs[ctx], idCounter, <<>>, vpcs[ctx], ctx,
                            firewall_fail_open)
        args == [resource_id |-> resource_id, firewall_fail_open |-> firewall_fail_open]
    IN /\ r.counter <= MaxIds
       /\ firewall_configs' = [firewall_configs EXCEPT ![ctx] = r.configs]
       /\ idCounter' = r.counter
       /\ IF r.last = <<>>
          THEN Respond("update_firewall_config", ctx, args, "UnboundLocalError", <<>>)
          ELSE Respond("update_firewall_config", ctx, args, Ok, <<[FirewallConfig |-> r.last[1]]>>)
       /\ UNCHANGED <<firewall_rule_groups, firewall_domain_lists, firewall_domains,
                      firewall_rules, firewall_rule_group_associations,
                      resolver_query_log_configs, resolver_query_log_config_associations,
                      tagger, vpcs, now, pending>>

\* The EC2 backend of the scope gets a VPC
ec2_create_vpc(ctx, vpc_id) ==
    /\ vpc_id \notin Range(vpcs[ctx])
    /\ vpcs' = [vpcs EXCEPT ![ctx] = Append(@, vpc_id)]
    /\ UNCHANGED <<storeVars, tagger, idCounter, now, pending, response>>

----------------------------------------------------------------------------
(* The patch of the moto backend's _matched_arn *)

extract_account_id_from_arn(arn) == arn.account
extract_region_from_arn(arn) == arn.region

\* record.get(field)
RecordGet(record, field) == IF field \in DOMAIN record THEN Some(record[field]) ELSE None

MatchedCollectionsButLast(ctx) ==
    Values(firewall_rule_groups[ctx]) \o Values(firewall_domain_lists[ctx])
        \o Values(firewall_rule_group_associations[ctx])

\* the records the hook compares the ARN with, in the order it visits them
MatchedCollections(ctx) ==
    Values(firewall_rule_groups[ctx]) \o Values(firewall_domain_lists[ctx])
        \o Values(firewall_rule_group_associations[ctx])
        \o Values(resolver_query_log_configs[ctx])

\* returns when a record of the ARN's scope has the ARN, else calls fn, the patched
\* method of the moto backend (fallback |-> TRUE)
Route53ResolverBackend_matched_arn(resource_arn) ==
    LET account_id == extract_account_id_from_arn(resource_arn)
        region_name == extract_region_from_arn(resource_arn)
        ctx == <<account_id, region_name>>
        records == MatchedCollections(ctx)
        matched == \E i \in 1..Len(records) : RecordGet(records[i], "Arn") = Some(resource_arn)
    IN /\ Respond("_matched_arn", ctx, [resource_arn |-> resource_arn], Ok,
                  <<[fallback |-> ~matched]>>)
       /\ UNCHANGED <<storeVars, tagger, vpcs, idCounter, now, pending>>

----------------------------------------------------------------------------

\* Time passes between calls
clock_tick ==
    /\ now < MaxTime
    /\ now' = now + 1
    /\ UNCHANGED <<storeVars, tagger, vpcs, idCounter, pending, response>>

EmptyStore == [s \in Scopes |-> EmptyDict]

Init ==
    /\ firewall_rule_groups = EmptyStore
    /\ firewall_domain_lists = EmptyStore
    /\ firewall_domains = EmptyStore
    /\ firewall_rules = EmptyStore
    /\ firewall_rule_group_associations = EmptyStore
    /\ resolver_query_log_configs = EmptyStore
    /\ resolver_query_log_config_associations = EmptyStore
    /\ firewall_configs = EmptyStore
    /\ tagger = [s \in Scopes |-> <<>>]
    /\ vpcs = [s \in Scopes |-> <<>>]
    /\ idCounter = 0
    /\ now = 0
    /\ pending = [c \in Callers |-> None]
    /\ response = [op |-> "none", ctx |-> HomeScope, args |-> <<>>, status |-> Ok, result |-> <<>>]

(* Create, get, delete and list of rule groups, domain lists, query log configs *)
(* and rule group associations in one scope.                                   *)

DestinationArns == {<<"arn", "aws", "s3", "", "", "bucket">>, <<"bucket">>}
MaxResultsArgs == {None, Some(1)}
NextTokenArgs == {None, Some("token")}

Next ==
    \/ \E n \in Names : create_firewall_rule_group(HomeScope, "cr1", n, None)
    \/ \E id \in Ids : delete_firewall_rule_group(HomeScope, id)
    \/ \E id \in Ids : get_firewall_rule_group(HomeScope, id)
    \/ \E m \in MaxResultsArgs, t \in NextTokenArgs : list_firewall_rule_groups(HomeScope, m, t)
    \/ create_firewall_domain_list(HomeScope, "cr2", "n1", None)
    \/ \E id \in Ids : delete_firewall_domain_list(HomeScope, id)
    \/ \E id \in Ids : get_firewall_domain_list(HomeScope, id)
    \/ \E m \in MaxResultsArgs, t \in NextTokenArgs : list_firewall_domain_lists(HomeScope, m, t)
    \/ \E d \in DestinationArns :
          create_resolver_query_log_config(HomeScope, "n2", d, "cr1", None)
    \/ \E id \in Ids : delete_resolver_query_log_config(HomeScope, id)
    \/ \E id \in Ids : get_resolver_query_log_config(HomeScope, id)
    \/ associate_firewall_rule_group(HomeScope, "cr1", 1, "vpc-1", 100, "n1", None, None)
    \/ \E id \in Ids : disassociate_firewall_rule_group(HomeScope, id)
    \/ \E id \in Ids : get_firewall_rule_group_association(HomeScope, id)

Spec == Init /\ [][Next]_vars

(* C8: for rule groups, domain lists, rule group associations and query log configs,
   deleting (disassociating) an id that is not in the scoped collection signals
   NotFound and leaves the collection unchanged; deleting an id that is present
   returns its record and removes exactly that record, so that a following get or
   delete of the same id signals NotFound. *)
DeleteContract(op, idArg, resultField, before, after) ==
    response'.op = op =>
        LET id == response'.args[idArg]
        IN IF HasKey(before, id)
           THEN /\ response'.status = Ok
                /\ response'.result[1][resultField] = DictGet(before, id)
                /\ Keys(after) = Keys(before) \ {id}
                /\ Len(after) = Len(before) - 1
                /\ \A k \in Keys(after) : DictGet(after, k) = DictGet(before, k)
                /\ store_get(after, id).status = NotFound
                /\ store_delete(after, id).status = NotFound
           ELSE /\ response'.status = NotFound
                /\ after = before

C8_DeleteRemovesOrNotFound ==
    [][/\ DeleteContract("delete_firewall_rule_group", "firewall_rule_group_id",
                         "FirewallRuleGroup", firewall_rule_groups[response'.ctx],
                         firewall_rule_groups'[response'.ctx])
       /\ DeleteContract("delete_firewall_domain_list", "firewall_domain_list_id",
                         "FirewallDomainList", firewall_domain_lists[response'.ctx],
                         firewall_domain_lists'[response'.ctx])
       /\ DeleteContract("disassociate_firewall_rule_group",
                         "firewall_rule_group_association_id", "FirewallRuleGroupAssociation",
                         firewall_rule_group_associations[response'.ctx],
                         firewall_rule_group_associations'[response'.ctx])
       /\ DeleteContract("delete_resolver_query_log_config", "resolver_query_log_config_id",
                         "ResolverQueryLogConfig", resolver_query_log_configs[response'.ctx],
                         resolver_query_log_configs'[response'.ctx])]_vars

\* A rule group was deleted while another record stays stored
C8_Witness ==
    /\ response.op = "delete_firewall_rule_group"
    /\ response.status = Ok
    /\ ~HasKey(firewall_rule_groups[HomeScope], response.args.firewall_rule_group_id)
    /\ Len(firewall_rule_groups[HomeScope]) = 1

(* C9: after create_firewall_rule_group, create_firewall_domain_list or
   create_resolver_query_log_config returns a record, a get with the returned Id in
   the same scope returns an equal record, with Name, CreatorRequestId and
   DestinationArn as supplied to the create. *)
CreateRoundTrip(op, resultField, coll) ==
    (response.op = op /\ response.status = Ok) =>
        LET created == response.result[1][resultField]
            got == store_get(coll, created.Id)
        IN /\ got.status = Ok
           /\ got.record[1] = created
           /\ created.Name = response.args.name
           /\ created.CreatorRequestId = response.args.creator_request_id

C9_CreateThenGet ==
    /\ CreateRoundTrip("create_firewall_rule_group", "FirewallRuleGroup",
                       firewall_rule_groups[response.ctx])
    /\ CreateRoundTrip("create_firewall_domain_list", "FirewallDomainList",
                       firewall_domain_lists[response.ctx])
    /\ CreateRoundTrip("create_resolver_query_log_config", "ResolverQueryLogConfig",
                       resolver_query_log_configs[response.ctx])
    /\ (response.op = "create_resolver_query_log_config" /\ response.status = Ok) =>
           response.result[1].ResolverQueryLogConfig.DestinationArn =
              response.args.destination_arn

\* The second rule group was just created, named "n2"
C9_Witness ==
    /\ response.op = "create_firewall_rule_group"
    /\ response.status = Ok
    /\ response.args.name = "n2"
    /\ Len(firewall_rule_groups[HomeScope]) = 2

(* C10: in every reachable store state, list_firewall_rule_groups and
   list_firewall_domain_lists complete without error and return exactly one metadata
   entry for each record stored in the scope's collection, whatever pagination
   arguments are passed. *)
ListsAll(op, resultField, coll) ==
    response.op = op =>
        /\ response.status = Ok
        /\ LET listed == response.result[1][resultField]
           IN /\ Len(listed) = Len(coll)
              /\ {listed[i].Id : i \in 1..Len(listed)} = Keys(coll)

C10_ListReturnsEveryRecord ==
    /\ ListsAll("list_firewall_rule_groups", "FirewallRuleGroups",
                firewall_rule_groups[response.ctx])
    /\ ListsAll("list_firewall_domain_lists", "FirewallDomainLists",
                firewall_domain_lists[response.ctx])

----------------------------------------------------------------------------
(* Firewall rules of one scope: create, update, delete and list calls. *)

RuleGroupIds == {1, 2}
RuleDomainListIds == {1, 2}
RuleUpdatePriorities == {None, Some(0), Some(2)}

NextRules ==
    \/ \E g \in RuleGroupIds, d \in RuleDomainListIds :
          create_firewall_rule(HomeScope, "cr1", g, d, 1, "BLOCK", "n1", None, None, None, None)
    \/ \E g \in RuleGroupIds, d \in RuleDomainListIds, priority \in RuleUpdatePriorities :
          update_firewall_rule(HomeScope, g, d, priority, None, None, None, None, None, None)
    \/ \E g \in RuleGroupIds, d \in RuleDomainListIds : delete_firewall_rule(HomeScope, g, d)
    \/ \E g \in RuleGroupIds \cup {3} :
          list_firewall_rules(HomeScope, g, None, None, None, None)

SpecRules == Init /\ [][NextRules]_vars

(* C6: list_firewall_rules(group_id) signals NotFound exactly when no rule is stored
   under group_id (the id was never used, or the group has no rules left); otherwise
   it returns exactly the rules stored under the group, one per domain list id. *)
C6_ListRulesNotFoundIffEmpty ==
    response.op = "list_firewall_rules" =>
        LET rules == firewall_rules[response.ctx]
            g == response.args.firewall_rule_group_id
            stored == {d \in RuleDomainListIds : get_firewall_rule(rules, g, d).status = Ok}
        IN /\ response.status = NotFound <=> stored = {}
           /\ response.status # NotFound =>
                 /\ response.status = Ok
                 /\ LET listed == response.result[1].FirewallRules
                    IN /\ Len(listed) = Cardinality(stored)
                       /\ Range(listed) = {get_firewall_rule(rules, g, d).record[1] : d \in stored}
                       /\ \A d \in stored :
                              Cardinality({i \in 1..Len(listed) :
                                              listed[i].FirewallDomainListId = d}) = 1

\* One rule is listed for group 1 while group 2, whose only rule was deleted, is
\* still a key of the store
C6_Witness ==
    /\ response.op = "list_firewall_rules"
    /\ response.status = Ok
    /\ response.args.firewall_rule_group_id = 1
    /\ Len(response.result[1].FirewallRules) = 1
    /\ HasKey(firewall_rules[HomeScope], 2)
    /\ DictGet(firewall_rules[HomeScope], 2) = EmptyDict

----------------------------------------------------------------------------
(* Firewall configs of one scope, the EC2 backend gaining VPCs meanwhile. *)

FirewallFailOpenStatuses == {"ENABLED", "DISABLED"}

NextConfig ==
    \/ \E v \in VpcIds : ec2_create_vpc(HomeScope, v)
    \/ \E v \in VpcIds : get_firewall_config(HomeScope, v)
    \/ list_firewall_configs(HomeScope, None, None)
    \/ \E v \in VpcIds, f \in FirewallFailOpenStatuses : update_firewall_config(HomeScope, v, f)

SpecConfig == Init /\ [][NextConfig]_vars

(* C7: get_firewall_config for a resource id creates a config with the default
   FirewallFailOpen only when none exists for that id; otherwise it returns the
   stored config; neither it nor list_firewall_configs changes the FirewallFailOpen
   of a stored config, so a value set by update_firewall_config is the one they
   return later. *)
C7_GetConfigStable ==
    [][(/\ vpcs' = vpcs
        /\ response'.op \in {"get_firewall_config", "list_firewall_configs"})
       => LET ctx == response'.ctx
              before == firewall_configs[ctx]
              after == firewall_configs'[ctx]
          IN /\ response'.status = Ok
             /\ \A k \in Keys(before) : HasKey(after, k) /\ DictGet(after, k) = DictGet(before, k)
             /\ response'.op = "get_firewall_config" =>
                   LET resource_id == response'.args.resource_id
                       config == response'.result[1].FirewallConfig
                   IN /\ HasKey(after, resource_id)
                      /\ config = DictGet(after, resource_id)
                      /\ config.ResourceId = resource_id
                      /\ IF HasKey(before, resource_id)
                         THEN after = before
                         ELSE /\ Keys(after) = Keys(before) \cup {resource_id}
                              /\ config.FirewallFailOpen = DefaultFirewallFailOpen
             /\ response'.op = "list_firewall_configs" =>
                   LET listed == response'.result[1].FirewallConfigs
                   IN \A k \in Keys(before) :
                          \E i \in 1..Len(listed) :
                              /\ listed[i].ResourceId = k
                              /\ listed[i].FirewallFailOpen = DictGet(before, k).FirewallFailOpen]_vars

\* get_firewall_config returns the value an earlier update_firewall_config set
C7_Witness ==
    /\ response.op = "get_firewall_config"
    /\ response.status = Ok
    /\ response.result[1].FirewallConfig.FirewallFailOpen = "ENABLED"
    /\ response.result[1].FirewallConfig =
          DictGet(firewall_configs[HomeScope], response.args.resource_id)

(* C17: after list_firewall_configs every VPC id of the scope's EC2 backend has a
   firewall config in the store; the configs stored before keep their
   FirewallFailOpen, the ones the call created are for VPCs of the backend and have
   the default, and the response has exactly one entry for each stored config. *)
C17_ListConfigsSynchronizes ==
    [][(vpcs' = vpcs /\ response'.op = "list_firewall_configs")
       => LET ctx == response'.ctx
              before == firewall_configs[ctx]
              after == firewall_configs'[ctx]
              listed == response'.result[1].FirewallConfigs
          IN /\ response'.status = Ok
             /\ Range(vpcs[ctx]) \subseteq Keys(after)
             /\ Cardinality(Keys(after)) = Len(after)
             /\ \A k \in Keys(before) :
                   /\ HasKey(after, k)
                   /\ DictGet(after, k).FirewallFailOpen = DictGet(before, k).FirewallFailOpen
             /\ \A k \in Keys(after) \ Keys(before) :
                   /\ k \in Range(vpcs[ctx])
                   /\ DictGet(after, k).ResourceId = k
                   /\ DictGet(after, k).FirewallFailOpen = DefaultFirewallFailOpen
             /\ Len(listed) = Len(after)
             /\ \A k \in Keys(after) :
                   \E i \in 1..Len(listed) :
                       /\ listed[i] = DictGet(after, k)
                       /\ \A j \in 1..Len(listed) : listed[j].ResourceId = k => j = i]_vars

\* Two configs are listed: one set to ENABLED by an earlier update, one with the
\* default that the VPC created since then got from this call or a get
C17_Witness ==
    /\ response.op = "list_firewall_configs"
    /\ Len(response.result[1].FirewallConfigs) = 2
    /\ Len(vpcs[HomeScope]) = 2
    /\ \E i, j \in 1..2 :
          /\ response.result[1].FirewallConfigs[i].FirewallFailOpen = "ENABLED"
          /\ response.result[1].FirewallConfigs[j].FirewallFailOpen = DefaultFirewallFailOpen

(* C21: update_firewall_config(resource_id, value) completes without error, also
   when the scope's EC2 backend has no VPC; it sets FirewallFailOpen to value on the
   config of resource_id, returns that config, and leaves the FirewallFailOpen of the
   config of every other resource unchanged. *)
C21_UpdateConfigSetsRequested ==
    [][(vpcs' = vpcs /\ response'.op = "update_firewall_config")
       => LET ctx == response'.ctx
              resource_id == response'.args.resource_id
              before == firewall_configs[ctx]
              after == firewall_configs'[ctx]
          IN /\ response'.status = Ok
             /\ HasKey(after, resource_id)
             /\ DictGet(after, resource_id).FirewallFailOpen = response'.args.firewall_fail_open
             /\ response'.result[1].FirewallConfig = DictGet(after, resource_id)
             /\ \A k \in Keys(before) \ {resource_id} :
                   /\ HasKey(after, k)
                   /\ DictGet(after, k).FirewallFailOpen = DictGet(before, k).FirewallFailOpen]_vars

----------------------------------------------------------------------------
(* Rule group associations of one scope: associate, update and disassociate *)
(* calls, one at a time.                                                   *)

AssocPairs == {<<"vpc-1", 1>>, <<"vpc-1", 2>>, <<"vpc-2", 1>>}
AssocPriorities == {99, 100}
AssocMutationProtections == {None, Some("BOGUS")}
AssocUpdates == {<<Some(200), Some("ENABLED"), None>>, <<Some(50), None, Some("n2")>>}
AssocIds == 1..(MaxIds + 1)

NextAssoc ==
    \/ \E pair \in AssocPairs, priority \in AssocPriorities,
          mutation_protection \in AssocMutationProtections :
          associate_firewall_rule_group(HomeScope, "cr1", pair[2], pair[1], priority, "n1",
                                        mutation_protection, None)
    \/ \E id \in AssocIds, u \in AssocUpdates :
          update_firewall_rule_group_association(HomeScope, id, u[1], u[2], u[3])
    \/ \E id \in AssocIds : disassociate_firewall_rule_group(HomeScope, id)

SpecAssoc == Init /\ [][NextAssoc]_vars

(* C1: in every reachable state of a scope, after any sequence of associate, update
   and disassociate calls, no two stored rule group associations have the same
   (VpcId, FirewallRuleGroupId) pair. *)
C1_AssociationPairUnique ==
    \A s \in Scopes :
        LET associations == Values(firewall_rule_group_associations[s])
        IN \A i, j \in 1..Len(associations) :
               i # j => \/ associations[i].VpcId # associations[j].VpcId
                        \/ associations[i].FirewallRuleGroupId #
                              associations[j].FirewallRuleGroupId

\* Two associations sharing a VPC are stored, one of them updated, and a further
\* associate call for a stored pair has just been rejected
C1_Witness ==
    LET associations == Values(firewall_rule_group_associations[HomeScope])
    IN /\ Len(associations) >= 2
       /\ \E i, j \in 1..Len(associations) :
              /\ i # j
              /\ associations[i].VpcId = associations[j].VpcId
              /\ associations[i].Priority = 200
       /\ response.op = "associate_firewall_rule_group"
       /\ response.status = Validation
       /\ validate_priority(Some(response.args.priority))
       /\ validate_mutation_protection(response.args.mutation_protection)

(* C2: with a valid priority and mutation protection value, associate_firewall_rule_group
   for a pair that has no stored association succeeds and stores one new association;
   for a pair whose association is still stored it fails with a Validation error, adds
   no association, changes no association and makes no tagging call. *)
C2_AssociateTwice ==
    [][(/\ response'.op = "associate_firewall_rule_group"
        /\ validate_priority(Some(response'.args.priority))
        /\ validate_mutation_protection(response'.args.mutation_protection))
       => LET ctx == response'.ctx
              before == firewall_rule_group_associations[ctx]
              after == firewall_rule_group_associations'[ctx]
              stored == \E i \in 1..Len(before) :
                           /\ before[i].v.VpcId = response'.args.vpc_id
                           /\ before[i].v.FirewallRuleGroupId =
                                 response'.args.firewall_rule_group_id
          IN IF stored
             THEN /\ response'.status = Validation
                  /\ firewall_rule_group_associations' = firewall_rule_group_associations
                  /\ tagger' = tagger
             ELSE /\ response'.status = Ok
                  /\ Len(after) = Len(before) + 1
                  /\ SubSeq(after, 1, Len(before)) = before
                  /\ after[Len(after)].v = response'.result[1].FirewallRuleGroupAssociation
                  /\ after[Len(after)].k \notin Keys(before)
                  /\ after[Len(after)].v.VpcId = response'.args.vpc_id
                  /\ after[Len(after)].v.FirewallRuleGroupId =
                        response'.args.firewall_rule_group_id]_vars

\* The second associate call for a pair: rejected while the first one's association
\* is the only one stored, with the one tagging call of the first
C2_Witness ==
    /\ response.op = "associate_firewall_rule_group"
    /\ response.status = Validation
    /\ validate_priority(Some(response.args.priority))
    /\ validate_mutation_protection(response.args.mutation_protection)
    /\ Len(firewall_rule_group_associations[HomeScope]) = 1
    /\ firewall_rule_group_associations[HomeScope][1].v.VpcId = response.args.vpc_id
    /\ firewall_rule_group_associations[HomeScope][1].v.FirewallRuleGroupId =
          response.args.firewall_rule_group_id
    /\ Len(tagger[HomeScope]) = 1

----------------------------------------------------------------------------
(* The domains of one firewall domain list: the store after                *)
(* create_firewall_domain_list("cr1", "n1") in the home scope, then any    *)
(* update_firewall_domains and list_firewall_domains calls, on the stored  *)
(* list id and on an unknown one.                                          *)

InputDomains ==
    {<<>>, <<"a.com">>, <<"b.com">>, <<"a.com", "b.com">>, <<"b.com", "a.com">>,
     <<"a.com", "a.com">>}
Operations == {"ADD", "REMOVE", "REPLACE"}
DomainListIds == {1, 2}

InitDomains ==
    LET arn == Arn("firewall-domain-list", HomeScope, 1)
        firewall_domain_list == FirewallDomainList(HomeScope, 1, "n1", "cr1", 0)
    IN /\ firewall_rule_groups = EmptyStore
       /\ firewall_domain_lists =
              [EmptyStore EXCEPT ![HomeScope] = DictSet(@, 1, firewall_domain_list)]
       /\ firewall_domains = EmptyStore
       /\ firewall_rules = EmptyStore
       /\ firewall_rule_group_associations = EmptyStore
       /\ resolver_query_log_configs = EmptyStore
       /\ resolver_query_log_config_associations = EmptyStore
       /\ firewall_configs = EmptyStore
       /\ tagger = [[s \in Scopes |-> <<>>] EXCEPT ![HomeScope] = <<[arn |-> arn, tags |-> <<>>]>>]
       /\ vpcs = [s \in Scopes |-> <<>>]
       /\ idCounter = 1
       /\ now = 0
       /\ pending = [c \in Callers |-> None]
       /\ response = [op |-> "create_firewall_domain_list", ctx |-> HomeScope,
                      args |-> [creator_request_id |-> "cr1", name |-> "n1", tags |-> None],
                      status |-> Ok, result |-> <<[FirewallDomainList |-> firewall_domain_list]>>]

NextDomains ==
    \/ \E id \in DomainListIds, operation \in Operations, domains \in InputDomains :
          update_firewall_domains(HomeScope, id, operation, domains)
    \/ \E id \in DomainListIds : list_firewall_domains(HomeScope, id, None, None)

SpecDomains == InitDomains /\ [][NextDomains]_vars

\* The call of update_firewall_domains that the step made, if it made one
IsUpdateDomains(operation) ==
    /\ response'.op = "update_firewall_domains"
    /\ response'.args.operation = operation
    /\ HasKey(firewall_domain_lists[response'.ctx], response'.args.firewall_domain_list_id)

\* The stored domain sequence of a list id, empty when none is stored
StoredDomains(fd, id) == IF HasKey(fd, id) THEN DictGet(fd, id) ELSE <<>>

(* C3: update_firewall_domains ADD on a list without domains sets the domain
   sequence to the input; ADD on a list with domains yields the previous sequence
   followed by each input domain as its own element, so that list_firewall_domains
   returns the previous domains followed by the input domains. *)
C3_AddAppendsEachDomain ==
    [][IsUpdateDomains("ADD") =>
          LET ctx == response'.ctx
              id == response'.args.firewall_domain_list_id
              domains == response'.args.domains
          IN /\ response'.status = Ok
             /\ StoredDomains(firewall_domains'[ctx], id) =
                   StoredDomains(firewall_domains[ctx], id) \o AsElems(domains)
             /\ ListedDomains(firewall_domains'[ctx], id) =
                   ListedDomains(firewall_domains[ctx], id) \o domains]_vars

(* C4: update_firewall_domains REMOVE on an existing list fails with a Validation
   error whenever the input contains a domain that is not in the list's domain
   sequence, also when the list has no domains at all. *)
C4_RemoveOfNonMemberFails ==
    [][(/\ IsUpdateDomains("REMOVE")
        /\ \E d \in Range(response'.args.domains) :
              StrElem(d) \notin
                 Range(StoredDomains(firewall_domains[response'.ctx],
                                     response'.args.firewall_domain_list_id)))
       => response'.status = Validation]_vars

(* C5: update_firewall_domains REPLACE on an existing list makes the list's domain
   sequence exactly the input sequence, whatever it was before, and
   list_firewall_domains then returns exactly the input. *)
C5_ReplaceYieldsInput ==
    [][IsUpdateDomains("REPLACE") =>
          LET ctx == response'.ctx
              id == response'.args.firewall_domain_list_id
              domains == response'.args.domains
          IN /\ response'.status = Ok
             /\ HasKey(firewall_domains'[ctx], id)
             /\ DictGet(firewall_domains'[ctx], id) = AsElems(domains)
             /\ ListedDomains(firewall_domains'[ctx], id) = domains]_vars

C5_Witness ==
    /\ response.op = "update_firewall_domains"
    /\ response.args.operation = "REPLACE"
    /\ response.status = Ok
    /\ response.args.domains = <<"b.com", "a.com">>
    /\ ListedDomains(firewall_domains[HomeScope], 1) = <<"b.com", "a.com">>

\* the stored sequence l without the first occurrence of each of the domains ds
RECURSIVE WithoutEach(_, _)
WithoutEach(l, ds) ==
    IF ds = <<>> THEN l ELSE WithoutEach(ListRemove(l, StrElem(Head(ds))), Tail(ds))

\* the first k domains of the batch are distinct members of the stored sequence
\* and the next one is not a member
FailsAfter(stored, domains, k) ==
    /\ k < Len(domains)
    /\ \A i \in 1..k : StrElem(domains[i]) \in Range(stored)
    /\ \A i, j \in 1..k : i # j => domains[i] # domains[j]
    /\ StrElem(domains[k + 1]) \notin Range(stored)

(* C15: update_firewall_domains REMOVE with a batch whose first k domains are in the
   list and whose (k+1)-th is not fails with a Validation error, and the stored
   sequence afterwards is the previous one without those first k domains: earlier
   removals are kept and nothing after the failing domain is removed. *)
C15_RemoveFailsPartway ==
    [][IsUpdateDomains("REMOVE") =>
          LET ctx == response'.ctx
              id == response'.args.firewall_domain_list_id
              domains == response'.args.domains
              stored == StoredDomains(firewall_domains[ctx], id)
          IN \A k \in 0..Len(domains) :
                FailsAfter(stored, domains, k) =>
                   /\ response'.status = Validation
                   /\ StoredDomains(firewall_domains'[ctx], id) =
                         WithoutEach(stored, SubSeq(domains, 1, k))]_vars

----------------------------------------------------------------------------
(* Domain updates of the stored list and of an unknown one while the clock advances *)

StatusDomains == {<<"a.com">>, <<"b.com">>}

NextDomainStatus ==
    \/ \E id \in DomainListIds, operation \in Operations, domains \in StatusDomains :
          update_firewall_domains(HomeScope, id, operation, domains)
    \/ clock_tick

SpecDomainStatus == InitDomains /\ [][NextDomainStatus]_vars

\* StatusMessage and ModificationTime of every record of a domain-list collection
StatusFields(lists) ==
    [i \in 1..Len(lists) |-> <<lists[i].k, lists[i].v.StatusMessage, lists[i].v.ModificationTime>>]

(* C16: an update_firewall_domains call that completes without error sets the parent
   record's StatusMessage to the finished-update message and its ModificationTime to
   the time of the call; a call that raises (REMOVE aborted by a Validation error,
   unknown list id) leaves StatusMessage and ModificationTime of every domain-list
   record as they were. *)
C16_StatusUpdatedUnlessAborted ==
    [][response'.op = "update_firewall_domains" /\ now' = now =>
          LET ctx == response'.ctx
              id == response'.args.firewall_domain_list_id
          IN IF response'.status = Ok
             THEN LET record == DictGet(firewall_domain_lists'[ctx], id)
                  IN /\ record.StatusMessage = "Finished domain list update"
                     /\ record.ModificationTime = now
                     /\ \A other \in Keys(firewall_domain_lists[ctx]) \ {id} :
                           DictGet(firewall_domain_lists'[ctx], other) =
                              DictGet(firewall_domain_lists[ctx], other)
             ELSE /\ response'.status \in {Validation, NotFound}
                  /\ response'.status = NotFound <=> ~HasKey(firewall_domain_lists[ctx], id)
                  /\ StatusFields(firewall_domain_lists'[ctx]) =
                        StatusFields(firewall_domain_lists[ctx])]_vars

\* A REMOVE was aborted at time 2 and the record still has the ModificationTime 1 of
\* the update that finished before it
C16_Witness ==
    /\ response.op = "update_firewall_domains"
    /\ response.args.operation = "REMOVE"
    /\ response.status = Validation
    /\ now = 2
    /\ DictGet(firewall_domain_lists[HomeScope], 1).StatusMessage = "Finished domain list update"
    /\ DictGet(firewall_domain_lists[HomeScope], 1).ModificationTime = 1

----------------------------------------------------------------------------
(* Firewall rules of three (group, domain list) pairs: created twice over with
   different contents, updated field by field, deleted. *)

RulePairs == {<<1, 1>>, <<1, 2>>, <<2, 1>>}

\* <<priority, action, name, block_response, block_override_domain,
\*   block_override_dns_type, block_override_ttl>> of a create
RuleCreates ==
    {<<1, "BLOCK", "n1", Some("OVERRIDE"), Some("a.com"), Some("CNAME"), Some(60)>>,
     <<5, "ALLOW", "n2", None, None, None, None>>}

\* <<priority, action, block_response, block_override_domain,
\*   block_override_dns_type, block_override_ttl, name>> of an update
RuleUpdates ==
    {<<None, None, None, None, None, None, None>>,
     <<None, None, None, None, None, None, Some("n1")>>,
     <<Some(7), Some("ALERT"), Some("NODATA"), Some("b.com"), Some("A"), Some(30), Some("n2")>>,
     <<Some(0), None, None, None, None, None, None>>,
     <<None, None, None, None, None, Some(0), None>>}

NextRuleUpsert ==
    \/ \E p \in RulePairs, c \in RuleCreates :
          create_firewall_rule(HomeScope, "cr1", p[1], p[2], c[1], c[2], c[3], c[4], c[5], c[6], c[7])
    \/ \E p \in RulePairs, u \in RuleUpdates :
          update_firewall_rule(HomeScope, p[1], p[2], u[1], u[2], u[3], u[4], u[5], u[6], u[7])
    \/ \E p \in RulePairs : delete_firewall_rule(HomeScope, p[1], p[2])

SpecRuleUpsert == Init /\ [][NextRuleUpsert]_vars

UniqueKeys(d) == Cardinality(Keys(d)) = Len(d)

(* C11: after every create_firewall_rule, update_firewall_rule and
   delete_firewall_rule step each (FirewallRuleGroupId, FirewallDomainListId) pair
   has at most one stored rule; create_firewall_rule always succeeds, the rule stored
   for its pair afterwards is the new one it returns (built from the supplied
   arguments), and the rule of every other pair is as before. *)
C11_CreateRuleUpserts ==
    [][LET before == firewall_rules[response'.ctx]
           after == firewall_rules'[response'.ctx]
       IN /\ UniqueKeys(after)
          /\ \A g \in Keys(after) : UniqueKeys(DictGet(after, g))
          /\ response'.op = "create_firewall_rule" =>
                LET g == response'.args.firewall_rule_group_id
                    d == response'.args.firewall_domain_list_id
                    got == get_firewall_rule(after, g, d)
                IN /\ response'.status = Ok
                   /\ got.status = Ok
                   /\ got.record[1] = response'.result[1].FirewallRule
                   /\ got.record[1].Name = response'.args.name
                   /\ got.record[1].Priority = response'.args.priority
                   /\ got.record[1].Action = response'.args.action
                   /\ got.record[1].BlockOverrideTtl = response'.args.block_override_ttl
                   /\ \A p \in RulePairs \ {<<g, d>>} :
                          get_firewall_rule(after, p[1], p[2]) =
                             get_firewall_rule(before, p[1], p[2])]_vars

\* The rule of pair (1, 1), created as "n1", was created again as "n2" while the
\* rules of pairs (1, 2) and (2, 1) are stored
C11_Witness ==
    /\ response.op = "create_firewall_rule"
    /\ response.args.firewall_rule_group_id = 1
    /\ response.args.firewall_domain_list_id = 1
    /\ response.args.name = "n2"
    /\ get_firewall_rule(firewall_rules[HomeScope], 1, 1).record[1].Name = "n2"
    /\ get_firewall_rule(firewall_rules[HomeScope], 1, 2).status = Ok
    /\ get_firewall_rule(firewall_rules[HomeScope], 1, 2).record[1].Name = "n1"
    /\ get_firewall_rule(firewall_rules[HomeScope], 2, 1).status = Ok
    /\ Len(DictGet(firewall_rules[HomeScope], 1)) = 2

\* field f of the rule after an update: the supplied value if one was supplied,
\* else the previous value
UpdatedRaw(old, new, f, arg) == new[f] = (IF arg # None THEN arg[1] ELSE old[f])
UpdatedOpt(old, new, f, arg) == new[f] = (IF arg # None THEN arg ELSE old[f])

(* C12: a successful update_firewall_rule sets each of Priority, Action,
   BlockResponse, BlockOverrideDomain, BlockOverrideDnsType, BlockOverrideTtl and Name
   to the supplied value when one is supplied (0 included) and leaves omitted fields
   and the key fields at their previous value. *)
C12_UpdateRuleSetsSupplied ==
    [][(response'.op = "update_firewall_rule" /\ response'.status = Ok) =>
          LET a == response'.args
              old == get_firewall_rule(firewall_rules[response'.ctx],
                                       a.firewall_rule_group_id,
                                       a.firewall_domain_list_id).record[1]
              new == get_firewall_rule(firewall_rules'[response'.ctx],
                                       a.firewall_rule_group_id,
                                       a.firewall_domain_list_id).record[1]
          IN /\ UpdatedRaw(old, new, "Priority", a.priority)
             /\ UpdatedRaw(old, new, "Action", a.action)
             /\ UpdatedRaw(old, new, "Name", a.name)
             /\ UpdatedOpt(old, new, "BlockResponse", a.block_response)
             /\ UpdatedOpt(old, new, "BlockOverrideDomain", a.block_override_domain)
             /\ UpdatedOpt(old, new, "BlockOverrideDnsType", a.block_override_dns_type)
             /\ UpdatedOpt(old, new, "BlockOverrideTtl", a.block_override_ttl)
             /\ new.FirewallRuleGroupId = old.FirewallRuleGroupId
             /\ new.FirewallDomainListId = old.FirewallDomainListId
             /\ new.CreatorRequestId = old.CreatorRequestId
             /\ new.CreationTime = old.CreationTime
             /\ response'.result[1].FirewallRule = new]_vars

----------------------------------------------------------------------------
(* Records with and without an Arn created and deleted, rule groups in both
   scopes, and the ARN hook asked about ARNs of every kind, scope and id. *)

ArnKinds ==
    {"firewall-rule-group", "firewall-domain-list", "firewall-rule-group-association",
     "resolver-query-log-config"}

NextArn ==
    \/ \E s \in Scopes : create_firewall_rule_group(s, "cr1", "n1", None)
    \/ \E s \in Scopes, id \in Ids : delete_firewall_rule_group(s, id)
    \/ create_firewall_domain_list(HomeScope, "cr1", "n1", None)
    \/ \E id \in Ids : delete_firewall_domain_list(HomeScope, id)
    \/ associate_firewall_rule_group(HomeScope, "cr1", 1, "vpc-1", 100, "n1", None, None)
    \/ \E id \in Ids : disassociate_firewall_rule_group(HomeScope, id)
    \/ create_resolver_query_log_config(HomeScope, "n1", <<"arn", "aws", "s3", "", "", "bucket">>, "cr1", None)
    \/ \E id \in Ids : delete_resolver_query_log_config(HomeScope, id)
    \/ associate_resolver_query_log_config(HomeScope, 1, "vpc-1")
    \/ \E kind \in ArnKinds, s \in Scopes, id \in 1..MaxIds :
          Route53ResolverBackend_matched_arn(Arn(kind, s, id))

SpecArn == Init /\ [][NextArn]_vars

\* every record stored in a scope, whatever its collection
AllRecords(ctx) ==
    Range(Values(firewall_rule_groups[ctx])) \cup Range(Values(firewall_domain_lists[ctx]))
        \cup Range(Values(firewall_rule_group_associations[ctx]))
        \cup Range(Values(resolver_query_log_configs[ctx]))
        \cup Range(Values(resolver_query_log_config_associations[ctx]))
        \cup Range(Values(firewall_configs[ctx]))
        \cup UNION {Range(Values(g)) : g \in Range(Values(firewall_rules[ctx]))}

(* C13: the ARN hook calls the backend's fallback exactly when no record stored in
   the scope (account, region) named by the ARN has that ARN as its Arn; so the ARN
   of a created record is recognised while the record is stored and not after its
   deletion. *)
C13_HookFallbackIffUnknown ==
    response.op = "_matched_arn" =>
        LET arn == response.args.resource_arn
            ctx == <<arn.account, arn.region>>
        IN /\ response.ctx = ctx
           /\ response.result[1].fallback <=>
                 ~\E r \in AllRecords(ctx) : "Arn" \in DOMAIN r /\ r.Arn = arn

\* The fallback is called for the ARN of a query log config that was created (the
\* tagger has its ARN) and deleted since, while another one is stored
C13_Witness ==
    /\ response.op = "_matched_arn"
    /\ response.result[1].fallback
    /\ response.args.resource_arn.kind = "resolver-query-log-config"
    /\ \E i \in 1..Len(tagger[HomeScope]) : tagger[HomeScope][i].arn = response.args.resource_arn
    /\ Len(resolver_query_log_configs[HomeScope]) = 1

----------------------------------------------------------------------------
(* The same operations invoked in two scopes (two accounts of one region). *)

NextScopes ==
    \/ \E s \in Scopes : create_firewall_rule_group(s, "cr1", "n1", None)
    \/ \E s \in Scopes, id \in 1..MaxIds : get_firewall_rule_group(s, id)
    \/ \E s \in Scopes : create_firewall_domain_list(s, "cr1", "n1", None)
    \/ \E s \in Scopes, id \in 1..MaxIds : update_firewall_domains(s, id, "REPLACE", <<"a.com">>)
    \/ \E s \in Scopes : create_firewall_rule(s, "cr1", 1, 1, 1, "BLOCK", "n1", None, None, None, None)
    \/ \E s \in Scopes : associate_firewall_rule_group(s, "cr1", 1, "vpc-1", 100, "n1", None, None)
    \/ \E s \in Scopes :
          create_resolver_query_log_config(s, "n1", <<"arn", "aws", "s3", "", "", "bucket">>, "cr1", None)
    \/ \E s \in Scopes : get_firewall_config(s, "vpc-1")

SpecScopes == Init /\ [][NextScopes]_vars

\* what a scope holds: its eight collections and the tags recorded for it
ScopeState(s) ==
    <<firewall_rule_groups[s], firewall_domain_lists[s], firewall_domains[s],
      firewall_rules[s], firewall_rule_group_associations[s],
      resolver_query_log_configs[s], resolver_query_log_config_associations[s],
      firewall_configs[s], tagger[s]>>

\* a get in the scope of the last call answers from that scope's collection alone
GetFromOwnScope(op, idArg, coll) ==
    response.op = op =>
        (response.status = Ok <=> HasKey(coll[response.ctx], response.args[idArg]))

(* C14: a call in scope (A, R) leaves every collection of every other scope
   unchanged, and a get by id answers from the scope of the call alone: the id of a
   record created in another scope is NotFound. *)
C14_ScopesIsolated ==
    [][/\ \A s \in Scopes \ {response'.ctx} : ScopeState(s)' = ScopeState(s)
       /\ GetFromOwnScope("get_firewall_rule_group", "firewall_rule_group_id",
                          firewall_rule_groups)'
       /\ \A s \in Scopes \ {response'.ctx} :
             Keys(firewall_rule_groups'[s]) \cap Keys(firewall_rule_groups'[response'.ctx]) = {}]_vars

\* A rule group stored in the other account is looked up from the home scope, which
\* has a rule group of its own, and is not found
C14_Witness ==
    /\ response.op = "get_firewall_rule_group"
    /\ response.ctx = HomeScope
    /\ response.status = NotFound
    /\ Len(firewall_rule_groups[HomeScope]) = 1
    /\ \E s \in Scopes \ {HomeScope} :
          HasKey(firewall_rule_groups[s], response.args.firewall_rule_group_id)

----------------------------------------------------------------------------
(* The four operations that tag, called with and without tags, with valid and
   with rejected arguments. *)

TagLists == {None, Some(<<>>), Some(<<[Key |-> "k", Value |-> "v"]>>)}

NextTags ==
    \/ \E tags \in TagLists : create_firewall_rule_group(HomeScope, "cr1", "n1", tags)
    \/ \E tags \in TagLists : create_firewall_domain_list(HomeScope, "cr1", "n1", tags)
    \/ \E tags \in TagLists, priority \in AssocPriorities, mp \in AssocMutationProtections :
          associate_firewall_rule_group(HomeScope, "cr1", 1, "vpc-1", priority, "n1", mp, tags)
    \/ \E tags \in TagLists, d \in DestinationArns :
          create_resolver_query_log_config(HomeScope, "n1", d, "cr1", tags)

SpecTags == Init /\ [][NextTags]_vars

\* the call of op stored the record it returns in coll and tagged its ARN once
TagsOnce(op, resultField, coll) ==
    response'.op = op =>
        LET ctx == response'.ctx
        IN IF response'.status = Ok
           THEN LET record == response'.result[1][resultField]
                IN /\ HasKey(coll'[ctx], record.Id)
                   /\ ~HasKey(coll[ctx], record.Id)
                   /\ DictGet(coll'[ctx], record.Id) = record
                   /\ tagger' =
                         [tagger EXCEPT
                             ![ctx] = Append(@, [arn |-> record.Arn,
                                                 tags |-> IF response'.args.tags = None
                                                          THEN <<>>
                                                          ELSE response'.args.tags[1]])]
           ELSE /\ response'.status = Validation
                /\ tagger' = tagger

(* C18: every successful create_firewall_rule_group, create_firewall_domain_list,
   associate_firewall_rule_group and create_resolver_query_log_config call makes
   exactly one tagging call, with the ARN of the record it stored and the supplied
   tags (the empty list when none were supplied); a call rejected by validation
   makes none. *)
C18_CreateTagsOnce ==
    [][/\ TagsOnce("create_firewall_rule_group", "FirewallRuleGroup", firewall_rule_groups)
       /\ TagsOnce("create_firewall_domain_list", "FirewallDomainList", firewall_domain_lists)
       /\ TagsOnce("associate_firewall_rule_group", "FirewallRuleGroupAssociation",
                   firewall_rule_group_associations)
       /\ TagsOnce("create_resolver_query_log_config", "ResolverQueryLogConfig",
                   resolver_query_log_configs)]_vars

\* A tagged association and an untagged query log config were created, and a second
\* association of the pair, with tags, was rejected
C18_Witness ==
    /\ response.op = "associate_firewall_rule_group"
    /\ response.status = Validation
    /\ response.args.priority = 100
    /\ response.args.tags # None
    /\ Len(tagger[HomeScope]) = 2
    /\ \E i, j \in 1..2 :
          /\ tagger[HomeScope][i].arn.kind = "firewall-rule-group-association"
          /\ tagger[HomeScope][i].tags = <<[Key |-> "k", Value |-> "v"]>>
          /\ tagger[HomeScope][j].arn.kind = "resolver-query-log-config"
          /\ tagger[HomeScope][j].tags = <<>>

----------------------------------------------------------------------------
(* Query log configs created and deleted, and associated with resources whether
   they exist or not. *)

QueryLogConfigIds == {1, 2}

NextQueryLogAssoc ==
    \/ create_resolver_query_log_config(HomeScope, "n1", <<"arn", "aws", "s3", "", "", "bucket">>, "cr1", None)
    \/ \E id \in QueryLogConfigIds : delete_resolver_query_log_config(HomeScope, id)
    \/ \E id \in QueryLogConfigIds, resource_id \in VpcIds :
          associate_resolver_query_log_config(HomeScope, id, resource_id)
    \/ list_resolver_query_log_config_associations(HomeScope, None, None, None, None, None)

SpecQueryLogAssoc == Init /\ [][NextQueryLogAssoc]_vars

(* C19: associate_resolver_query_log_config always succeeds, also for a
   (ResolverQueryLogConfigId, ResourceId) pair that is already associated and for a
   config id that is not stored; it adds exactly one association with a fresh Id and
   Status ACTIVE, and leaves the stored associations and every query log config
   record (AssociationCount included) unchanged. *)
C19_QueryLogAssociateNeverFails ==
    [][response'.op = "associate_resolver_query_log_config" =>
          LET ctx == response'.ctx
              before == resolver_query_log_config_associations[ctx]
              after == resolver_query_log_config_associations'[ctx]
          IN /\ response'.status = Ok
             /\ LET new == response'.result[1].ResolverQueryLogConfigAssociation
                IN /\ ~HasKey(before, new.Id)
                   /\ \A i \in 1..Len(before) : before[i].v.Id # new.Id
                   /\ after = Append(before, Entry(new.Id, new))
                   /\ new.Status = "ACTIVE"
                   /\ new.ResolverQueryLogConfigId = response'.args.resolver_query_log_config_id
                   /\ new.ResourceId = response'.args.resource_id
             /\ resolver_query_log_configs' = resolver_query_log_configs]_vars

\* The pair (1, "vpc-1") is associated twice, by two records, and no query log config
\* is stored
C19_Witness ==
    /\ response.op = "associate_resolver_query_log_config"
    /\ response.status = Ok
    /\ resolver_query_log_configs[HomeScope] = EmptyDict
    /\ LET stored == Values(resolver_query_log_config_associations[HomeScope])
       IN /\ Len(stored) = 2
          /\ stored[1].Id # stored[2].Id
          /\ stored[1].ResolverQueryLogConfigId = stored[2].ResolverQueryLogConfigId
          /\ stored[1].ResourceId = stored[2].ResourceId

----------------------------------------------------------------------------
(* Two callers associating rule groups with VPCs concurrently in one scope: the
   steps of their calls interleave, disassociate calls run in between. *)

RacePairs == {<<"vpc-1", 1>>, <<"vpc-2", 1>>}

NextRace ==
    \/ \E c \in Callers, pair \in RacePairs, priority \in AssocPriorities :
          associate_firewall_rule_group_scan(c, HomeScope, "cr1", pair[2], pair[1], priority,
                                             "n1", None, None)
    \/ \E c \in Callers : associate_firewall_rule_group_insert(c)
    \/ \E id \in AssocIds : disassociate_firewall_rule_group(HomeScope, id)

SpecRace == Init /\ [][NextRace]_vars

\* how many of the associations are for the pair
PairCount(associations, vpc_id, firewall_rule_group_id) ==
    Cardinality({i \in 1..Len(associations) :
                    /\ associations[i].v.VpcId = vpc_id
                    /\ associations[i].v.FirewallRuleGroupId = firewall_rule_group_id})

(* C20: with the scan and the insert of associate_firewall_rule_group as separate
   steps and no lock, a call passes its scan exactly when no association of its pair
   is stored at that moment, and its insert happens whatever was stored since: the
   insert leaves two associations of the pair exactly when another call inserted the
   pair between this call's scan and its insert (the two-association state the
   witness reaches). When nothing ran in between, as with serialized calls, the pair
   has one association after the insert. *)
C20_DuplicateOnlyByInterleaving ==
    [][\A c \in Callers :
          /\ (pending[c] = None /\ pending'[c] # None) =>
                LET call == pending'[c][1]
                IN /\ ~\E i \in 1..Len(firewall_rule_group_associations[call.ctx]) :
                          /\ firewall_rule_group_associations[call.ctx][i].v.VpcId = call.args.vpc_id
                          /\ firewall_rule_group_associations[call.ctx][i].v.FirewallRuleGroupId =
                                call.args.firewall_rule_group_id
                   /\ call.seen = Keys(firewall_rule_group_associations[call.ctx])
                   /\ firewall_rule_group_associations' = firewall_rule_group_associations
          /\ (pending[c] # None /\ pending'[c] = None) =>
                LET call == pending[c][1]
                    before == firewall_rule_group_associations[call.ctx]
                    after == firewall_rule_group_associations'[call.ctx]
                    new == response'.result[1].FirewallRuleGroupAssociation
                    count == PairCount(after, call.args.vpc_id, call.args.firewall_rule_group_id)
                IN /\ response'.status = Ok
                   /\ after = Append(before, Entry(new.Id, new))
                   /\ new.VpcId = call.args.vpc_id
                   /\ new.FirewallRuleGroupId = call.args.firewall_rule_group_id
                   /\ count >= 2 <=>
                         \E i \in 1..Len(before) :
                             /\ before[i].k \notin call.seen
                             /\ before[i].v.VpcId = call.args.vpc_id
                             /\ before[i].v.FirewallRuleGroupId = call.args.firewall_rule_group_id
                   /\ Keys(before) = call.seen => count = 1]_vars

\* Both callers passed the scan for the pair ("vpc-1", 1) and both inserted: two
\* associations of the pair are stored
C20_Witness ==
    /\ \A c \in Callers : pending[c] = None
    /\ response.op = "associate_firewall_rule_group"
    /\ response.status = Ok
    /\ PairCount(firewall_rule_group_associations[HomeScope], "vpc-1", 1) = 2

----------------------------------------------------------------------------
(* Updates of stored and unknown associations, with valid and rejected values. *)

\* <<priority, mutation_protection, name>> of an update
AssocUpdateArgs ==
    {<<None, None, None>>,
     <<Some(200), None, None>>,
     <<None, Some("ENABLED"), Some("n2")>>,
     <<Some(50), None, Some("n2")>>,
     <<Some(200), Some("BOGUS"), None>>}

NextAssocUpdate ==
    \/ \E pair \in RacePairs :
          associate_firewall_rule_group(HomeScope, "cr1", pair[2], pair[1], 100, "n1", None, None)
    \/ \E id \in AssocIds, u \in AssocUpdateArgs :
          update_firewall_rule_group_association(HomeScope, id, u[1], u[2], u[3])

SpecAssocUpdate == Init /\ [][NextAssocUpdate]_vars

\* field f of the association changed only if a value was supplied, and then to it
OnlyIfSupplied(old, new, f, arg) == new[f] # old[f] => (arg # None /\ new[f] = arg[1])

(* C22: an update_firewall_rule_group_association call that is rejected (invalid
   priority, invalid mutation protection value, unknown association id) leaves every
   stored association unchanged; a successful one changes, of the association it
   names, only those of Priority, MutationProtection and Name that were supplied,
   never its Id, VpcId, FirewallRuleGroupId or another field, and no other
   association. *)
C22_UpdateAssociationFrame ==
    [][response'.op = "update_firewall_rule_group_association" =>
          LET ctx == response'.ctx
              a == response'.args
              id == a.firewall_rule_group_association_id
              before == firewall_rule_group_associations[ctx]
              after == firewall_rule_group_associations'[ctx]
              valid == validate_priority(a.priority) /\ validate_mutation_protection(a.mutation_protection)
          IN /\ response'.status = Ok <=> (valid /\ HasKey(before, id))
             /\ response'.status # Ok =>
                   /\ response'.status \in {Validation, NotFound}
                   /\ after = before
             /\ response'.status = Ok =>
                   LET old == DictGet(before, id)
                       new == DictGet(after, id)
                   IN /\ Keys(after) = Keys(before)
                      /\ Len(after) = Len(before)
                      /\ \A k \in Keys(before) \ {id} : DictGet(after, k) = DictGet(before, k)
                      /\ \A f \in DOMAIN old \ {"Priority", "MutationProtection", "Name"} :
                            new[f] = old[f]
                      /\ DOMAIN new = DOMAIN old
                      /\ OnlyIfSupplied(old, new, "Priority", a.priority)
                      /\ OnlyIfSupplied(old, new, "MutationProtection", a.mutation_protection)
                      /\ OnlyIfSupplied(old, new, "Name", a.name)
                      /\ response'.result[1].FirewallRuleGroupAssociation = new]_vars

\* An update with a rejected priority and a new name was refused for a stored
\* association whose mutation protection an earlier update had enabled, while the
\* other association is as created
C22_Witness ==
    /\ response.op = "update_firewall_rule_group_association"
    /\ response.status = Validation
    /\ response.args.name = Some("n2")
    /\ response.args.priority = Some(50)
    /\ Len(firewall_rule_group_associations[HomeScope]) = 2
    /\ HasKey(firewall_rule_group_associations[HomeScope],
              response.args.firewall_rule_group_association_id)
    /\ LET r == DictGet(firewall_rule_group_associations[HomeScope],
                        response.args.firewall_rule_group_association_id)
       IN r.MutationProtection = "ENABLED" /\ r.Priority = 100
    /\ \E i \in 1..2 :
          /\ firewall_rule_group_associations[HomeScope][i].v.Name = "n1"
          /\ firewall_rule_group_associations[HomeScope][i].v.MutationProtection = "DISABLED"

----------------------------------------------------------------------------
(* Removal from domain sequences that hold a domain more than once: the    *)
(* store after create_firewall_domain_list, then REPLACE, ADD and REMOVE.  *)

RemoveStored ==
    {<<"a.com", "b.com", "a.com">>, <<"b.com", "a.com", "b.com">>, <<"a.com", "b.com">>}
RemoveAdded == {<<"c.com">>}
RemoveInputs ==
    {<<"a.com">>, <<"b.com">>, <<"a.com", "a.com">>, <<"a.com", "b.com">>,
     <<"b.com", "a.com">>, <<"c.com">>}

NextRemove ==
    \/ \E id \in DomainListIds, domains \in RemoveStored :
          update_firewall_domains(HomeScope, id, "REPLACE", domains)
    \/ \E id \in DomainListIds, domains \in RemoveAdded :
          update_firewall_domains(HomeScope, id, "ADD", domains)
    \/ \E id \in DomainListIds, domains \in RemoveInputs :
          update_firewall_domains(HomeScope, id, "REMOVE", domains)

SpecRemove == InitDomains /\ [][NextRemove]_vars

\* the sequence l without its element at index i
DeleteAt(l, i) == [j \in 1..(Len(l) - 1) |-> IF j < i THEN l[j] ELSE l[j + 1]]

\* the least index of l that holds e
FirstIndex(l, e) == CHOOSE i \in 1..Len(l) : l[i] = e /\ \A j \in 1..Len(l) : l[j] = e => i <= j

\* l after deleting, for each domain of ds in order, its first remaining occurrence
RECURSIVE FirstOccurrencesDeleted(_, _)
FirstOccurrencesDeleted(l, ds) ==
    IF ds = <<>> THEN l
    ELSE FirstOccurrencesDeleted(DeleteAt(l, FirstIndex(l, StrElem(Head(ds)))), Tail(ds))

\* how often e occurs in l
Occurrences(l, e) == Cardinality({i \in 1..Len(l) : l[i] = e})

\* sub is l with some elements left out, the others in their order
IsSubsequence(sub, l) ==
    \E f \in [1..Len(sub) -> 1..Len(l)] :
       /\ \A i \in 1..Len(sub) : l[f[i]] = sub[i]
       /\ \A i, j \in 1..Len(sub) : i < j => f[i] < f[j]

(* C23: after an update_firewall_domains REMOVE that completes without error on a
   list whose stored domain sequence is not empty, the stored sequence is the
   previous one with, for each input domain in input order, the first remaining
   occurrence of that domain deleted; the remaining domains keep their relative
   order, and every element that the input does not name is kept. *)
C23_RemoveDeletesFirstOccurrences ==
    [][(IsUpdateDomains("REMOVE") /\ response'.status = Ok)
          => LET ctx == response'.ctx
                 id == response'.args.firewall_domain_list_id
                 domains == response'.args.domains
                 stored == StoredDomains(firewall_domains[ctx], id)
                 after == StoredDomains(firewall_domains'[ctx], id)
             IN stored # <<>> =>
                   /\ after = FirstOccurrencesDeleted(stored, domains)
                   /\ IsSubsequence(after, stored)
                   /\ \A e \in Range(stored) :
                         Occurrences(after, e) =
                            Occurrences(stored, e) -
                               Cardinality({i \in 1..Len(domains) : StrElem(domains[i]) = e})]_vars

\* REMOVE of a.com succeeded and left b.com followed by a.com: of the sequence
\* a.com, b.com, a.com the first a.com went and the second stayed behind b.com
C23_Witness ==
    /\ response.op = "update_firewall_domains"
    /\ response.args.operation = "REMOVE"
    /\ response.args.domains = <<"a.com">>
    /\ response.args.firewall_domain_list_id = 1
    /\ response.status = Ok
    /\ StoredDomains(firewall_domains[HomeScope], 1) = <<StrElem("b.com"), StrElem("a.com")>>

====
